---- MODULE Spec2Model ----
(***************************************************************************)
(* Watch-list reconciliation and library deduplication of the YAM main     *)
(* renderer (src/app/electron/main/main-renderer.js), with the API of the  *)
(* message-box preload (src/unnamed/part_000) and the snapshot build tool  *)
(* (src/unnamed/part_001).                                                 *)
(*                                                                         *)
(* Strings are sequences of one-character strings, so that the regular     *)
(* expressions and the case folding of the code are computed, not assumed. *)
(* Every await of the code is a step boundary: one action runs from one    *)
(* await to the next.                                                      *)
(***************************************************************************)
EXTENDS Integers, Sequences, FiniteSets, TLC

VARIABLES
    ing,        \* state of each invocation of onAddLocalGame / onAddRemoteGame
    threadDB,   \* ThreadDB: sequence of ThreadRecords, in insertion order
    gameDB,     \* GameDB: sequence of GameRecords, in insertion order
    nextId,     \* next internal _id the persistence layer hands out
    syn,        \* state of each invocation of updatedThreads()
    prevL,      \* <<L>> when the last store activity was a completed pass over L
    prevStore,  \* <<store>>: the thread store when that pass completed
    updated,    \* what getUpdatedThreads() returned last
    del,        \* state of the invocation of gameCardDelete
    ipc,        \* the calls made on the API the message-box preload exposes
    snap        \* the snapshot build tool: its run and the files it works on

vars == <<ing, threadDB, gameDB, nextId, syn, prevL, prevStore, updated, del,
          ipc, snap>>

\* the variables of the main renderer
rendererVars ==
    <<ing, threadDB, gameDB, nextId, syn, prevL, prevStore, updated, del>>

----------------------------------------------------------------------------
(* Bounds of the model *)

\* longest watch list handed to one pass
MaxLen == 2
\* internal ids the persistence layer can hand out in one behaviour
MaxId == 4
\* most directories selected in one dialog
MaxPaths == 2
\* with the handlers interleaved, a handler starts only while fewer than
\* this many records have been inserted
MaxStarts == 2
\* longest watch URL when the URLs are drawn from every string over a small
\* alphabet
MaxUrlLen == 4
\* most directories selected in one dialog when the selections are drawn
\* from two directory names
MaxPick == 6
\* most pieces a raw directory name is put together from
MaxPieces == 3
\* calls the message box makes on the API of its preload
MaxCalls == 2
\* runs of the snapshot build tool
MaxRuns == 2

----------------------------------------------------------------------------
(* Strings *)

DigitChars == {"0", "1", "2", "3", "4", "5", "6", "7", "8", "9"}

IsDigit(c) == c \in DigitChars

DigitVal(c) ==
    CASE c = "0" -> 0 [] c = "1" -> 1 [] c = "2" -> 2 [] c = "3" -> 3
      [] c = "4" -> 4 [] c = "5" -> 5 [] c = "6" -> 6 [] c = "7" -> 7
      [] c = "8" -> 8 [] c = "9" -> 9

RECURSIVE ParseInt(_)
\* parseInt of a non-empty run of decimal digits
ParseInt(ds) ==
    IF ds = <<>> THEN 0
    ELSE ParseInt(SubSeq(ds, 1, Len(ds) - 1)) * 10 + DigitVal(ds[Len(ds)])

DigitOf(n) == CHOOSE c \in DigitChars : DigitVal(c) = n

RECURSIVE ToDigits(_)
\* String(n) of a non-negative integer
ToDigits(n) ==
    IF n < 10 THEN <<DigitOf(n)>> ELSE Append(ToDigits(n \div 10), DigitOf(n % 10))

Range(s) == {s[i] : i \in 1..Len(s)}

Min(S) == CHOOSE x \in S : \A y \in S : x <= y

Max(S) == CHOOSE x \in S : \A y \in S : y <= x

LowerChars == <<"a", "b", "c", "d", "e", "f", "g", "h", "i", "j", "k", "l", "m",
                "n", "o", "p", "q", "r", "s", "t", "u", "v", "w", "x", "y", "z">>

UpperChars == <<"A", "B", "C", "D", "E", "F", "G", "H", "I", "J", "K", "L", "M",
                "N", "O", "P", "Q", "R", "S", "T", "U", "V", "W", "X", "Y", "Z">>

UpperChar(c) ==
    IF \E i \in 1..Len(LowerChars) : LowerChars[i] = c
    THEN UpperChars[CHOOSE i \in 1..Len(LowerChars) : LowerChars[i] = c]
    ELSE c

\* String.prototype.toUpperCase
ToUpperCase(s) == [i \in 1..Len(s) |-> UpperChar(s[i])]

\* the characters of the model in code-unit order
CharOrder == <<" ", "\"", "%", "*", "-", ".", "/">> \o
             <<"0", "1", "2", "3", "4", "5", "6", "7", "8", "9">> \o
             <<":", "<", ">", "?">> \o UpperChars \o <<"[", "\\", "]">> \o
             LowerChars \o <<"|">>

CharRank(c) == CHOOSE i \in 1..Len(CharOrder) : CharOrder[i] = c

\* first 1-based position >= from at which sub occurs in s, 0 when it does not:
\* String.prototype.indexOf, shifted by one
IndexOf(s, sub, from) ==
    LET hits == {i \in from..(Len(s) - Len(sub) + 1) :
                    SubSeq(s, i, i + Len(sub) - 1) = sub}
    IN IF hits = {} THEN 0 ELSE Min(hits)

\* String.prototype.includes
Includes(s, sub) == IndexOf(s, sub, 1) # 0

RECURSIVE StripTags(_)
\* name.replace(/\[(.*?)\]/g, ""): every "[" up to the next "]" is removed
StripTags(s) ==
    IF s = <<>> THEN <<>>
    ELSE IF s[1] = "[" /\ IndexOf(s, <<"]">>, 2) # 0
         THEN StripTags(SubSeq(s, IndexOf(s, <<"]">>, 2) + 1, Len(s)))
         ELSE <<s[1]>> \o StripTags(Tail(s))

\* the class [/\\?%*:|"<>]
SpecialChars == {"/", "\\", "?", "%", "*", ":", "|", "\"", "<", ">"}

\* .replace(/[/\\?%*:|"<>]/g, "")
StripSpecials(s) == SelectSeq(s, LAMBDA c : c \notin SpecialChars)

RECURSIVE TrimLeft(_)
TrimLeft(s) == IF s # <<>> /\ s[1] = " " THEN TrimLeft(Tail(s)) ELSE s

RECURSIVE TrimRight(_)
TrimRight(s) ==
    IF s # <<>> /\ s[Len(s)] = " " THEN TrimRight(SubSeq(s, 1, Len(s) - 1)) ELSE s

\* String.prototype.trim
Trim(s) == TrimRight(TrimLeft(s))

\* cleanGameName(name)
cleanGameName(name) == Trim(StripSpecials(StripTags(name)))

Unknown == <<"U", "n", "k", "n", "o", "w", "n">>

PREFIX_VERSION == <<"[", "V", ".">>

\* getGameVersionFromName(name)
getGameVersionFromName(name) ==
    IF Includes(ToUpperCase(name), PREFIX_VERSION)
    THEN LET startIndex == IndexOf(ToUpperCase(name), PREFIX_VERSION, 1)
                               + Len(PREFIX_VERSION)
             endIndex == IndexOf(name, <<"]">>, startIndex)
         IN \* substr(start, length): a length below one gives the empty string
            IF endIndex <= startIndex THEN <<>>
            ELSE SubSeq(name, startIndex, endIndex - 1)
    ELSE Unknown

\* getDirInfo(path); the path of the model is the directory name itself
getDirInfo(path) ==
    [path |-> path,
     name |-> cleanGameName(path),
     version |-> getGameVersionFromName(path),
     mod |-> Includes(ToUpperCase(path), <<"[", "M", "O", "D", "]">>)]

RECURSIVE StrLeq(_, _)
\* a <= b in the order of strings (code units, shorter prefix first)
StrLeq(a, b) ==
    IF a = <<>> THEN TRUE
    ELSE IF b = <<>> THEN FALSE
    ELSE IF a[1] = b[1] THEN StrLeq(Tail(a), Tail(b))
    ELSE CharRank(a[1]) < CharRank(b[1])

----------------------------------------------------------------------------
(* Watch URLs and the id the pass extracts from them *)

\* url.match(/\.[0-9]+/): the positions where a dot is followed by a digit
MatchStarts(url) ==
    {i \in 1..(Len(url) - 1) : url[i] = "." /\ IsDigit(url[i + 1])}

\* `if (!match)` is false: the regular expression matched somewhere
HasMatch(url) == MatchStarts(url) # {}

\* last position of the greedy digit run [0-9]+ that starts at j
RunEnd(url, j) == Max({k \in j..Len(url) : \A m \in j..k : IsDigit(url[m])})

\* match[0].replace(".", ""): the digits of the first (leftmost) match
MatchDigits(url) ==
    LET i == Min(MatchStarts(url)) IN SubSeq(url, i + 1, RunEnd(url, i + 1))

\* the id when the expression is /\.[0-9]/: one digit only
ExtractIdOneDigit(url) ==
    LET i == Min(MatchStarts(url)) IN ParseInt(SubSeq(url, i + 1, i + 1))

\* const id = parseInt(match[0].replace(".", ""))
ExtractId(url) == ParseInt(MatchDigits(url))

\* the watch URLs a list is drawn from: thread 1 under two slugs (the slug
\* changes when the thread is renamed for a new version), thread 12, and a
\* URL that carries no id
U1 == <<"t", ".", "1">>
U1v == <<"s", ".", "1">>
U12 == <<"g", ".", "1", "2">>
UBad == <<"t", ".", "x">>

WatchUrls == {U1, U1v, U12, UBad}

\* every watch list of at most MaxLen URLs
WatchLists == UNION {[1..n -> WatchUrls] : n \in 0..MaxLen}

\* the ids the pass extracts from a list
ExtractedIds(L) == {ExtractId(L[i]) : i \in {j \in 1..Len(L) : HasMatch(L[j])}}

----------------------------------------------------------------------------
(* The remote catalog (F95 platform), an external collaborator *)

\* the games of the platform, in the order a search returns them
Catalog == <<
    [id |-> 1,  name |-> <<"H", "b">>, author |-> "x", version |-> <<"1">>,
     isMod |-> FALSE],
    [id |-> 12, name |-> <<"g", "a">>, author |-> "x", version |-> <<"1">>,
     isMod |-> FALSE],
    [id |-> 3,  name |-> <<"G", "a">>, author |-> "y", version |-> <<"2">>,
     isMod |-> TRUE] >>

CatalogIds == {Catalog[i].id : i \in 1..Len(Catalog)}

CatalogEntry(id) == Catalog[CHOOSE i \in 1..Len(Catalog) : Catalog[i].id = id]

\* the thread a URL addresses on the platform: the number after its last dot
RemoteThreadId(url) ==
    LET dots == {i \in 1..Len(url) : url[i] = "."}
        i == Max(dots)
    IN ParseInt(SubSeq(url, i + 1, RunEnd(url, i + 1)))

\* the URL addresses a thread of the platform: its last dot is followed by
\* the number of one; the fetch of any other URL fails
Addressed(url) ==
    LET dots == {i \in 1..Len(url) : url[i] = "."}
    IN /\ dots # {}
       /\ Max(dots) < Len(url)
       /\ IsDigit(url[Max(dots) + 1])
       /\ RemoteThreadId(url) \in CatalogIds

\* window.F95.getGameDataFromURL(url), when it succeeds: the data of the thread
\* the URL addresses, under the URL that was asked for
GetGameDataFromURL(url) ==
    LET e == CatalogEntry(RemoteThreadId(url))
    IN [id |-> e.id, name |-> e.name, author |-> e.author,
        version |-> e.version, isMod |-> e.isMod, url |-> url]

\* window.F95.getGameData(name, includeMods), when it succeeds: the games of
\* that name, mods among them only when asked for, in catalog order
GetGameData(name, includeMods) ==
    SelectSeq(Catalog, LAMBDA e : /\ ToUpperCase(e.name) = ToUpperCase(name)
                                  /\ (includeMods \/ ~e.isMod))

\* window.GIE.convert(gameinfo): the remote metadata as a GameRecord (the mod
\* flag is the one of the remote game), the local fields still to be filled in
GIEConvert(gameInfo) ==
    [id |-> gameInfo.id, name |-> gameInfo.name, author |-> gameInfo.author,
     version |-> gameInfo.version, mod |-> gameInfo.isMod,
     gameDirectory |-> <<>>]

\* window.TI.convert(gameInfo): a ThreadRecord without internal id, not yet
\* updated and not yet read
TIConvert(gameInfo) ==
    [id |-> gameInfo.id, url |-> gameInfo.url, name |-> gameInfo.name,
     updateAvailable |-> FALSE, markedAsRead |-> FALSE]

----------------------------------------------------------------------------
(* The persistence layer (ThreadDB / GameDB), an external collaborator *)

\* DB.search({id: id}): the records with that remote id, in store order
SearchById(db, id) == SelectSeq(db, LAMBDA r : r.id = id)

\* DB.insert(record): the record gets a fresh internal id
DbInsert(db, rec, newId) ==
    Append(db, [f \in DOMAIN rec \cup {"_id"} |->
                    IF f = "_id" THEN newId ELSE rec[f]])

\* DB.write(record): the record with the same internal id is replaced
DbWrite(db, rec) ==
    [i \in 1..Len(db) |-> IF db[i]._id = rec._id THEN rec ELSE db[i]]

\* DB.delete(_id)
DbDelete(db, dbid) == SelectSeq(db, LAMBDA r : r._id # dbid)

\* the sort key of the ordering hint {name: 1}: names compare case-folded
NameKey(rec) == ToUpperCase(rec.name)

RECURSIVE InsertSorted(_, _)
InsertSorted(sorted, rec) ==
    IF sorted = <<>> THEN <<rec>>
    ELSE IF StrLeq(NameKey(sorted[1]), NameKey(rec))
         THEN <<sorted[1]>> \o InsertSorted(Tail(sorted), rec)
         ELSE <<rec>> \o sorted

RECURSIVE SortByName(_)
\* DB.search(query, {name: 1}): ascending by name, stable
SortByName(recs) ==
    IF recs = <<>> THEN <<>>
    ELSE InsertSorted(SortByName(SubSeq(recs, 1, Len(recs) - 1)), recs[Len(recs)])

----------------------------------------------------------------------------
(* updatedThreads(): one synchronization pass and the view it shows *)

SynProcs == {"s1", "s2"}

IdleSyn ==
    [pc |-> "idle", urlList |-> <<>>, idx |-> 0, recentIDs |-> <<>>,
     cur |-> <<>>, threads |-> <<>>, dIdx |-> 0, log |-> <<>>,
     ref |-> <<>>, startStore |-> <<>>, startId |-> 0]

\* the URL the loop of a pass is at
CurUrl(p) == syn[p].urlList[syn[p].idx]

InLoop(p) == syn[p].pc = "iter" /\ syn[p].idx <= Len(syn[p].urlList)

Logged(p, op, key) == Append(syn[p].log, [op |-> op, key |-> key])

\* no invocation of updatedThreads() is between its start and its end
SyncQuiet == \A q \in SynProcs : syn[q].pc = "idle"

\* updatedThreads(watchedThreads) is called: syncDatabaseWatchedThreads starts
SyncStart(p, L) ==
    /\ syn[p].pc = "idle"
    /\ nextId + Len(L) <= MaxId + 1
    /\ syn' = [syn EXCEPT ![p] =
                 [pc |-> "iter", urlList |-> L, idx |-> 1, recentIDs |-> <<>>,
                  cur |-> <<>>, threads |-> <<>>, dIdx |-> 0, log |-> <<>>,
                  ref |-> IF prevL = <<L>> THEN prevStore ELSE <<>>,
                  startStore |-> threadDB, startId |-> nextId]]
    /\ prevL' = <<>>
    /\ prevStore' = <<>>
    /\ UNCHANGED <<ing, threadDB, gameDB, nextId, updated, del, ipc, snap>>

\* the skip with `break` for `continue`: the loop ends at the id-less URL
SyncSkipBreaks(p) ==
    /\ InLoop(p)
    /\ ~HasMatch(CurUrl(p))
    /\ syn' = [syn EXCEPT ![p].idx = Len(syn[p].urlList) + 1,
                          ![p].log = Logged(p, "skip", 0)]
    /\ UNCHANGED <<ing, threadDB, gameDB, nextId, prevL, prevStore, updated, del, ipc, snap>>

\* if (!match) { log.warn(...); continue; }
SyncSkip(p) ==
    /\ InLoop(p)
    /\ ~HasMatch(CurUrl(p))
    /\ syn' = [syn EXCEPT ![p].idx = @ + 1, ![p].log = Logged(p, "skip", 0)]
    /\ UNCHANGED <<ing, threadDB, gameDB, nextId, prevL, prevStore, updated, del, ipc, snap>>

\* the comparison on the wrong field: thread[0].name === url
SameUrlWrongField(thread, url) == thread.name = url

\* the comparison of the stored id with the URL: thread[0].id === url
SameUrlStoredId(thread, url) == ToDigits(thread.id) = url

\* thread[0].url === url
SameUrl(thread, url) == thread.url = url

\* recentIDs.push(id); thread = await ThreadDB.search({id: id}); then the
\* branch on the result, up to the next await
SyncSearch(p) ==
    /\ InLoop(p)
    /\ HasMatch(CurUrl(p))
    /\ LET id == ExtractId(CurUrl(p))
           thread == SearchById(threadDB, id)
           seen == Append(syn[p].recentIDs, id)
       IN \/ /\ Len(thread) = 0
             /\ syn' = [syn EXCEPT ![p].recentIDs = seen, ![p].pc = "fetchIns"]
          \/ /\ Len(thread) # 0
             /\ SameUrl(thread[1], CurUrl(p))
             /\ syn' = [syn EXCEPT ![p].recentIDs = seen, ![p].idx = @ + 1,
                                   ![p].log = Logged(p, "nochange", id)]
          \/ /\ Len(thread) # 0
             /\ ~SameUrl(thread[1], CurUrl(p))
             /\ syn' = [syn EXCEPT ![p].recentIDs = seen, ![p].pc = "fetchUpd",
                                   ![p].cur = <<thread[1]>>]
    /\ UNCHANGED <<ing, threadDB, gameDB, nextId, prevL, prevStore, updated, del, ipc, snap>>

\* the new record with the flag of the update branch set
NewThreadFlagged(url) ==
    [TIConvert(GetGameDataFromURL(url)) EXCEPT !.updateAvailable = TRUE]

\* the record the insert branch stores
NewThread(url) == TIConvert(GetGameDataFromURL(url))

\* the log entries of the deletes of the records `gone`
DeleteEntries(gone) == [i \in 1..Len(gone) |-> [op |-> "delete", key |-> gone[i].id]]

\* the insert followed at once by the removal of the threads whose id the
\* loop has not met so far: the unsubscribe loop inside the loop over urlList
SyncInsertThenPrune(p) ==
    /\ syn[p].pc = "fetchIns"
    /\ nextId <= MaxId
    /\ LET rec == NewThread(CurUrl(p))
           stored == DbInsert(threadDB, rec, nextId)
           met == Range(syn[p].recentIDs)
           gone == SelectSeq(stored, LAMBDA t : t.id \notin met)
       IN /\ threadDB' = SelectSeq(stored, LAMBDA t : t.id \in met)
          /\ syn' = [syn EXCEPT ![p].pc = "iter", ![p].idx = @ + 1,
                                ![p].log = Logged(p, "insert", rec.id)
                                              \o DeleteEntries(gone)]
    /\ nextId' = nextId + 1
    /\ UNCHANGED <<ing, gameDB, prevL, prevStore, updated, del, ipc, snap>>

\* the insert sent to the other store: GameDB.insert(threadInfo)
SyncInsertIntoGames(p) ==
    /\ syn[p].pc = "fetchIns"
    /\ nextId <= MaxId
    /\ LET rec == NewThread(CurUrl(p))
       IN /\ gameDB' = DbInsert(gameDB, rec, nextId)
          /\ syn' = [syn EXCEPT ![p].pc = "iter", ![p].idx = @ + 1,
                                ![p].log = Logged(p, "insert", rec.id)]
    /\ nextId' = nextId + 1
    /\ UNCHANGED <<ing, threadDB, prevL, prevStore, updated, del, ipc, snap>>

\* the fetch of the insert branch returned: convert and ThreadDB.insert
SyncInsert(p) ==
    /\ syn[p].pc = "fetchIns"
    /\ nextId <= MaxId
    /\ LET rec == NewThread(CurUrl(p))
       IN /\ threadDB' = DbInsert(threadDB, rec, nextId)
          /\ syn' = [syn EXCEPT ![p].pc = "iter", ![p].idx = @ + 1,
                                ![p].log = Logged(p, "insert", rec.id)]
    /\ nextId' = nextId + 1
    /\ UNCHANGED <<ing, gameDB, prevL, prevStore, updated, del, ipc, snap>>

\* the update without either flag assignment: the record is written as
\* TI.convert left it, with the internal id of the stored thread
UpdatedThreadUnflagged(thread, url) ==
    [f \in DOMAIN thread |->
        CASE f = "_id" -> thread._id
          [] OTHER -> TIConvert(GetGameDataFromURL(url))[f]]

\* the update without `threadInfo.updateAvailable = true`: the flag of the
\* stored record is kept
UpdatedThreadKeepsFlag(thread, url) ==
    [f \in DOMAIN thread |->
        CASE f = "updateAvailable" -> thread.updateAvailable
          [] f = "markedAsRead" -> FALSE
          [] f = "_id" -> thread._id
          [] OTHER -> TIConvert(GetGameDataFromURL(url))[f]]

\* the update without `threadInfo.markedAsRead = false`
UpdatedThreadKeepsRead(thread, url) ==
    [f \in DOMAIN thread |->
        CASE f = "updateAvailable" -> TRUE
          [] f = "markedAsRead" -> thread.markedAsRead
          [] f = "_id" -> thread._id
          [] OTHER -> TIConvert(GetGameDataFromURL(url))[f]]

\* the record the update branch writes over the stored thread
UpdatedThread(thread, url) ==
    [f \in DOMAIN thread |->
        CASE f = "updateAvailable" -> TRUE
          [] f = "markedAsRead" -> FALSE
          [] f = "_id" -> thread._id
          [] OTHER -> TIConvert(GetGameDataFromURL(url))[f]]

\* the fetch of the update branch returned: convert, flag and ThreadDB.write
SyncUpdate(p) ==
    /\ syn[p].pc = "fetchUpd"
    /\ LET rec == UpdatedThread(syn[p].cur[1], CurUrl(p))
       IN /\ threadDB' = DbWrite(threadDB, rec)
          /\ syn' = [syn EXCEPT ![p].pc = "iter", ![p].idx = @ + 1,
                                ![p].cur = <<>>,
                                ![p].log = Logged(p, "write", rec.id)]
    /\ UNCHANGED <<ing, gameDB, nextId, prevL, prevStore, updated, del, ipc, snap>>

\* the fetch inside try/catch: the failure is logged and the loop goes on to
\* the next URL
SyncFetchFailSwallowed(p) ==
    /\ syn[p].pc \in {"fetchIns", "fetchUpd"}
    /\ syn' = [syn EXCEPT ![p].pc = "iter", ![p].idx = @ + 1, ![p].cur = <<>>,
                          ![p].log = Logged(p, "fail", ExtractId(CurUrl(p)))]
    /\ UNCHANGED <<ing, threadDB, gameDB, nextId, prevL, prevStore, updated, del, ipc, snap>>

\* window.F95.getGameDataFromURL(url) throws: nothing in the pass catches it
SyncFetchFail(p) ==
    /\ syn[p].pc \in {"fetchIns", "fetchUpd"}
    /\ syn' = [syn EXCEPT ![p].pc = "failed", ![p].cur = <<>>,
                          ![p].log = Logged(p, "fail", ExtractId(CurUrl(p)))]
    /\ UNCHANGED <<ing, threadDB, gameDB, nextId, prevL, prevStore, updated, del, ipc, snap>>

\* the scan done before the loop: the threads are those the store held when
\* the pass started
SyncScanStartStore(p) ==
    /\ syn[p].pc = "iter"
    /\ syn[p].idx > Len(syn[p].urlList)
    /\ syn' = [syn EXCEPT ![p].pc = "unsub", ![p].threads = syn[p].startStore,
                          ![p].dIdx = 1, ![p].log = Logged(p, "scan", 0)]
    /\ UNCHANGED <<ing, threadDB, gameDB, nextId, prevL, prevStore, updated, del, ipc, snap>>

\* the loop is over: const threads = await ThreadDB.search({})
SyncScan(p) ==
    /\ syn[p].pc = "iter"
    /\ syn[p].idx > Len(syn[p].urlList)
    /\ syn' = [syn EXCEPT ![p].pc = "unsub", ![p].threads = threadDB,
                          ![p].dIdx = 1, ![p].log = Logged(p, "scan", 0)]
    /\ UNCHANGED <<ing, threadDB, gameDB, nextId, prevL, prevStore, updated, del, ipc, snap>>

\* the test on the internal id: !recentIDs.includes(thread._id)
UnsubscribedByDbId(thread, recentIDs) == thread._id \notin Range(recentIDs)

\* !recentIDs.includes(thread.id)
Unsubscribed(thread, recentIDs) == thread.id \notin Range(recentIDs)

\* one turn of the loop over the scanned threads
SyncUnsubscribe(p) ==
    /\ syn[p].pc = "unsub"
    /\ syn[p].dIdx <= Len(syn[p].threads)
    /\ LET thread == syn[p].threads[syn[p].dIdx]
       IN IF Unsubscribed(thread, syn[p].recentIDs)
          THEN /\ threadDB' = DbDelete(threadDB, thread._id)
               /\ syn' = [syn EXCEPT ![p].dIdx = @ + 1,
                                     ![p].log = Logged(p, "delete", thread.id)]
          ELSE /\ threadDB' = threadDB
               /\ syn' = [syn EXCEPT ![p].dIdx = @ + 1]
    /\ UNCHANGED <<ing, gameDB, nextId, prevL, prevStore, updated, del, ipc, snap>>

\* syncDatabaseWatchedThreads returns
SyncFinish(p) ==
    /\ syn[p].pc = "unsub"
    /\ syn[p].dIdx > Len(syn[p].threads)
    /\ syn' = [syn EXCEPT ![p].pc = "done"]
    /\ prevL' = <<syn[p].urlList>>
    /\ prevStore' = <<threadDB>>
    /\ UNCHANGED <<ing, threadDB, gameDB, nextId, updated, del, ipc, snap>>

\* the query {updateAvailable: true} alone
NeedsAttentionIgnoresRead(thread) == thread.updateAvailable

\* the query {updateAvailable: true, markedAsRead: false}
NeedsAttention(thread) == thread.updateAvailable /\ ~thread.markedAsRead

\* the lookup with the internal id: GameDB.search({_id: thread.id})
NotInstalledByDbId(thread, games) ==
    Len(SelectSeq(games, LAMBDA g : g._id = thread.id)) = 0

\* searchResult.length === 0: no installed game has the thread's id
NotInstalled(thread, games) == Len(SearchById(games, thread.id)) = 0

\* getUpdatedThreads()
GetUpdatedThreads(threads, games) ==
    SelectSeq(SortByName(SelectSeq(threads, NeedsAttention)),
              LAMBDA t : NotInstalled(t, games))

\* const updatedThreads = await getUpdatedThreads()
SyncShow(p) ==
    /\ syn[p].pc = "done"
    /\ updated' = GetUpdatedThreads(threadDB, gameDB)
    /\ syn' = [syn EXCEPT ![p].pc = "shown"]
    /\ UNCHANGED <<ing, threadDB, gameDB, nextId, prevL, prevStore, del, ipc, snap>>

\* updatedThreads() returns, or the rejection of the pass reaches its caller
SyncReturn(p) ==
    /\ syn[p].pc \in {"shown", "failed"}
    /\ syn' = [syn EXCEPT ![p] = IdleSyn]
    /\ UNCHANGED <<ing, threadDB, gameDB, nextId, prevL, prevStore, updated, del, ipc, snap>>

----------------------------------------------------------------------------
(* onAddLocalGame() and onAddRemoteGame(): ingestion of game directories *)

IngProcs == {"g1", "g2"}

\* the directories the user can select
DirGaV2 == <<"g", "A", " ", "[", "v", ".", "2", "]">>
DirGaMod == <<"G", "a", "[", "M", "O", "D", "]">>
DirHb == <<"H", ":", "b">>
DirZz == <<"Z", "z">>

Dirs == {DirGaV2, DirGaMod, DirHb, DirZz}

\* what the open dialog can return: up to n different directories
Selections(n) ==
    {sel \in UNION {[1..k -> Dirs] : k \in 0..n} :
        \A i, j \in 1..Len(sel) : sel[i] = sel[j] => i = j}

\* the selections of the multi-selection dialog and of the single-selection one
DirSelections == Selections(MaxPaths)
OneDirSelections == Selections(1)

U3 == <<"m", ".", "3">>

\* what the URL prompt can return: the page of a game, or nothing
GameUrls == {U1, U12, U3}

\* the value of dirInfo before getDirInfo has run
NoDirInfo == [path |-> <<>>, name |-> <<>>, version |-> <<>>, mod |-> FALSE]

IdleIng ==
    [pc |-> "idle", flow |-> "dir", picked |-> <<>>, queue |-> <<>>,
     cands |-> <<>>, sel |-> <<>>, url |-> <<>>,
     results |-> <<>>, startGames |-> <<>>, asked |-> <<>>,
     unlisted |-> <<>>, present |-> <<>>, notices |-> <<>>,
     dirInfo |-> NoDirInfo]

\* the comparison without toUpperCase()
NameListedCaseSensitive(path, games) ==
    \E i \in 1..Len(games) : cleanGameName(games[i].name) = cleanGameName(path)

\* listedGameNames.includes(gamename.toUpperCase())
NameListed(path, games) ==
    \E i \in 1..Len(games) :
        ToUpperCase(cleanGameName(games[i].name)) = ToUpperCase(cleanGameName(path))

\* every path pushed to gameFolderPaths, the listed ones too
UnlistedPathsKeepsListed(paths, games) == paths

\* getUnlistedGamesInArrayOfPath(paths): the paths it returns
UnlistedPaths(paths, games) == SelectSeq(paths, LAMBDA x : ~NameListed(x, games))

\* getUnlistedGamesInArrayOfPath(paths): the names it reports as present
AlreadyPresentGames(paths, games) ==
    LET present == SelectSeq(paths, LAMBDA x : NameListed(x, games))
    IN [i \in 1..Len(present) |-> cleanGameName(present[i])]

MAX_NUMBER_OF_PRESENT_GAMES_FOR_MESSAGES == 5

\* the warning "MR game already listed" for one name
ListedNotice(gamename) == [kind |-> "listed", gamename |-> gamename, number |-> 0]

\* the warning "MR multiple duplicate games" with the number of names
MultipleNotice(number) == [kind |-> "multiple", gamename |-> <<>>, number |-> number]

\* the threshold compared with `<`
NoticesBelowThreshold(alreadyPresentGames) ==
    IF Len(alreadyPresentGames) < MAX_NUMBER_OF_PRESENT_GAMES_FOR_MESSAGES
    THEN [i \in 1..Len(alreadyPresentGames) |-> ListedNotice(alreadyPresentGames[i])]
    ELSE <<MultipleNotice(Len(alreadyPresentGames))>>

\* the warnings getUnlistedGamesInArrayOfPath sends to the user
Notices(alreadyPresentGames) ==
    IF Len(alreadyPresentGames) <= MAX_NUMBER_OF_PRESENT_GAMES_FOR_MESSAGES
    THEN [i \in 1..Len(alreadyPresentGames) |-> ListedNotice(alreadyPresentGames[i])]
    ELSE <<MultipleNotice(Len(alreadyPresentGames))>>

\* no invocation of an add-game handler is between its start and its end
IngQuiet == \A q \in IngProcs : ing[q].pc = "idle"

\* the handler starts: the dialog returns `picked`, GameDB.search({}) returns,
\* the listed directories are dropped and their names reported; a batch
\* starts only when the store has internal ids left for all its paths
IngStart(p, flow, picked) ==
    /\ ing[p].pc = "idle"
    /\ nextId + Len(UnlistedPaths(picked, gameDB)) <= MaxId + 1
    /\ LET unlisted == UnlistedPaths(picked, gameDB)
           present == AlreadyPresentGames(picked, gameDB)
           base == [IdleIng EXCEPT !.flow = flow, !.picked = picked,
                                   !.startGames = gameDB,
                                   !.unlisted = unlisted,
                                   !.present = present,
                                   !.notices = Notices(present)]
       IN ing' = [ing EXCEPT ![p] =
                    IF Len(unlisted) = 0
                    THEN [base EXCEPT !.pc = "done"]
                    ELSE IF flow = "dir"
                    THEN [base EXCEPT !.pc = "lookup", !.queue = unlisted]
                    ELSE [base EXCEPT !.pc = "urlinput", !.queue = <<unlisted[1]>>]]
    /\ UNCHANGED <<threadDB, gameDB, nextId, syn, prevL, prevStore, updated, del, ipc, snap>>

\* the state of the invocation once the item it is at ended with `outcome`
EndItem(st, outcome) ==
    LET res == Append(st.results, [path |-> Head(st.queue), outcome |-> outcome])
        rest == Tail(st.queue)
    IN [st EXCEPT !.results = res, !.queue = rest, !.cands = <<>>, !.sel = <<>>,
                  !.pc = IF rest = <<>> THEN "done" ELSE "lookup"]

\* the lookup whose only test is gamelist.length !== 1: an empty list goes to
\* the message box
IngLookupAsksOnEmpty(p) ==
    /\ ing[p].pc = "lookup"
    /\ LET dirInfo == getDirInfo(Head(ing[p].queue))
           gamelist == GetGameData(dirInfo.name, dirInfo.mod)
       IN \/ /\ Len(gamelist) = 1
             /\ ing' = [ing EXCEPT ![p].sel = <<gamelist[1]>>, ![p].pc = "check",
                                   ![p].dirInfo = dirInfo]
          \/ /\ Len(gamelist) # 1
             /\ ing' = [ing EXCEPT ![p].cands = gamelist, ![p].pc = "choose",
                                   ![p].dirInfo = dirInfo]
    /\ UNCHANGED <<threadDB, gameDB, nextId, syn, prevL, prevStore, updated, del, ipc, snap>>

\* the lookups of all paths issued at once: the result that arrives is the
\* one of the last path of the batch, while the first is the item at hand
IngLookupAhead(p) ==
    /\ ing[p].pc = "lookup"
    /\ LET dirInfo == getDirInfo(ing[p].queue[Len(ing[p].queue)])
           gamelist == GetGameData(dirInfo.name, dirInfo.mod)
       IN \/ /\ Len(gamelist) = 0
             /\ ing' = [ing EXCEPT ![p] =
                          EndItem([ing[p] EXCEPT !.dirInfo = dirInfo], "nomatch")]
          \/ /\ Len(gamelist) = 1
             /\ ing' = [ing EXCEPT ![p].sel = <<gamelist[1]>>, ![p].pc = "check",
                                   ![p].dirInfo = dirInfo]
          \/ /\ Len(gamelist) > 1
             /\ ing' = [ing EXCEPT ![p].cands = gamelist, ![p].pc = "choose",
                                   ![p].dirInfo = dirInfo]
    /\ UNCHANGED <<threadDB, gameDB, nextId, syn, prevL, prevStore, updated, del, ipc, snap>>

\* dirInfo = getDirInfo(path);
\* gamelist = await window.F95.getGameData(dirInfo.name, dirInfo.mod) returned
IngLookup(p) ==
    /\ ing[p].pc = "lookup"
    /\ LET dirInfo == getDirInfo(Head(ing[p].queue))
           gamelist == GetGameData(dirInfo.name, dirInfo.mod)
       IN \/ /\ Len(gamelist) = 0
             /\ ing' = [ing EXCEPT ![p] =
                          EndItem([ing[p] EXCEPT !.dirInfo = dirInfo], "nomatch")]
          \/ /\ Len(gamelist) = 1
             /\ ing' = [ing EXCEPT ![p].sel = <<gamelist[1]>>, ![p].pc = "check",
                                   ![p].dirInfo = dirInfo]
          \/ /\ Len(gamelist) > 1
             /\ ing' = [ing EXCEPT ![p].cands = gamelist, ![p].pc = "choose",
                                   ![p].dirInfo = dirInfo]
    /\ UNCHANGED <<threadDB, gameDB, nextId, syn, prevL, prevStore, updated, del, ipc, snap>>

CloseButton == <<"c", "l", "o", "s", "e">>

\* buttonsList: one button per candidate, named by its id, in the order of
\* listOfGames, then the close button
ButtonsList(listOfGames) ==
    [i \in 1..Len(listOfGames) |-> ToDigits(listOfGames[i].id)] \o <<CloseButton>>

\* the buttons of the message box: one per candidate, named by its id, and close
Buttons(listOfGames) ==
    {ToDigits(listOfGames[i].id) : i \in 1..Len(listOfGames)} \cup {CloseButton}

\* the first candidate whatever the button: listOfGames.find(x => x.id)
FindGameFirst(listOfGames, button) == listOfGames[1]

\* listOfGames.find(x => x.id === parseInt(result.button))
FindGame(listOfGames, button) ==
    listOfGames[Min({i \in 1..Len(listOfGames) :
                        listOfGames[i].id = ParseInt(button)})]

\* what the message box showed for the item and what the user pressed
Asked(st, button) ==
    [path |-> Head(st.queue), cands |-> st.cands,
     buttons |-> ButtonsList(st.cands), button |-> button]

\* the choice without `if(!selectedGame) return`: the null of a closed box
\* reaches selectedGame.id, which throws
IngChooseNoNullCheck(p, button) ==
    /\ ing[p].pc = "choose"
    /\ button \in Buttons(ing[p].cands)
    /\ LET st == [ing[p] EXCEPT !.asked = Append(@, Asked(ing[p], button))]
       IN IF button = CloseButton
          THEN ing' = [ing EXCEPT ![p] = EndItem(st, "failed")]
          ELSE ing' = [ing EXCEPT ![p] =
                         [st EXCEPT !.sel = <<FindGame(st.cands, button)>>,
                                    !.pc = "check"]]
    /\ UNCHANGED <<threadDB, gameDB, nextId, syn, prevL, prevStore, updated, del, ipc, snap>>

\* requireUserToSelectGameWithSameName returned: the user pressed `button`
IngChoose(p, button) ==
    /\ ing[p].pc = "choose"
    /\ button \in Buttons(ing[p].cands)
    /\ LET st == [ing[p] EXCEPT !.asked = Append(@, Asked(ing[p], button))]
       IN IF button = CloseButton
          THEN ing' = [ing EXCEPT ![p] = EndItem(st, "cancelled")]
          ELSE ing' = [ing EXCEPT ![p] =
                         [st EXCEPT !.sel = <<FindGame(st.cands, button)>>,
                                    !.pc = "check"]]
    /\ UNCHANGED <<threadDB, gameDB, nextId, syn, prevL, prevStore, updated, del, ipc, snap>>

\* url = await window.API.invoke("url-input") returned; then
\* dirInfo = getDirInfo(gamePath), up to the fetch
IngUrlInput(p, url) ==
    /\ ing[p].pc = "urlinput"
    /\ IF url = <<>>
       THEN ing' = [ing EXCEPT ![p].pc = "done", ![p].queue = <<>>]
       ELSE ing' = [ing EXCEPT ![p].pc = "fetch", ![p].url = url,
                                ![p].dirInfo = getDirInfo(Head(ing[p].queue))]
    /\ UNCHANGED <<threadDB, gameDB, nextId, syn, prevL, prevStore, updated, del, ipc, snap>>

\* gameinfo = await window.F95.getGameDataFromURL(url) returned
IngFetch(p) ==
    /\ ing[p].pc = "fetch"
    /\ ing' = [ing EXCEPT ![p].sel = <<GetGameDataFromURL(ing[p].url)>>,
                          ![p].pc = "check"]
    /\ UNCHANGED <<threadDB, gameDB, nextId, syn, prevL, prevStore, updated, del, ipc, snap>>

\* the lookup with the internal id: GameDB.search({_id: game.id})
IdListedByDbId(game, games) ==
    Len(SelectSeq(games, LAMBDA g : g._id = game.id)) # 0

\* the test entry.length > 1
IdListedTwice(game, games) == Len(SearchById(games, game.id)) > 1

\* entry.length !== 0 for entry = GameDB.search({id: game.id})
IdListed(game, games) == Len(SearchById(games, game.id)) # 0

\* the handler without the lookup by id: every selected game goes on to the
\* insert
IngCheckPassesAll(p) ==
    /\ ing[p].pc = "check"
    /\ ing' = [ing EXCEPT ![p].pc = "insert"]
    /\ UNCHANGED <<threadDB, gameDB, nextId, syn, prevL, prevStore, updated, del, ipc, snap>>

\* the check against the library read when the handler started, not against
\* the store
IngCheckStartLibrary(p) ==
    /\ ing[p].pc = "check"
    /\ IF IdListed(ing[p].sel[1], ing[p].startGames)
       THEN ing' = [ing EXCEPT ![p] = EndItem(ing[p], "listed")]
       ELSE ing' = [ing EXCEPT ![p].pc = "insert"]
    /\ UNCHANGED <<threadDB, gameDB, nextId, syn, prevL, prevStore, updated, del, ipc, snap>>

\* entry = await window.GameDB.search({id: selectedGame.id}) returned
IngCheck(p) ==
    /\ ing[p].pc = "check"
    /\ IF IdListed(ing[p].sel[1], gameDB)
       THEN ing' = [ing EXCEPT ![p] = EndItem(ing[p], "listed")]
       ELSE ing' = [ing EXCEPT ![p].pc = "insert"]
    /\ UNCHANGED <<threadDB, gameDB, nextId, syn, prevL, prevStore, updated, del, ipc, snap>>

\* converted = GIE.convert(game); converted.version = dirInfo.version;
\* converted.gameDirectory = dirInfo.path
Converted(game, dirInfo) ==
    [GIEConvert(game) EXCEPT !.version = dirInfo.version,
                             !.gameDirectory = dirInfo.path]

\* the insert that looks the id up once more and stores the record only when
\* the lookup is empty, in one step
IngInsertGuarded(p) ==
    /\ ing[p].pc = "insert"
    /\ nextId <= MaxId
    /\ IF IdListed(ing[p].sel[1], gameDB)
       THEN /\ ing' = [ing EXCEPT ![p] = EndItem(ing[p], "listed")]
            /\ UNCHANGED <<gameDB, nextId>>
       ELSE /\ gameDB' = DbInsert(gameDB,
                                  Converted(ing[p].sel[1],
                                            getDirInfo(Head(ing[p].queue))),
                                  nextId)
            /\ nextId' = nextId + 1
            /\ ing' = [ing EXCEPT ![p] = EndItem(ing[p], "inserted")]
    /\ UNCHANGED <<threadDB, syn, prevL, prevStore, updated, del, ipc, snap>>

\* await window.GameDB.insert(converted) returned
IngInsert(p) ==
    /\ ing[p].pc = "insert"
    /\ nextId <= MaxId
    /\ gameDB' = DbInsert(gameDB,
                          Converted(ing[p].sel[1], getDirInfo(Head(ing[p].queue))),
                          nextId)
    /\ nextId' = nextId + 1
    /\ ing' = [ing EXCEPT ![p] = EndItem(ing[p], "inserted")]
    /\ UNCHANGED <<threadDB, syn, prevL, prevStore, updated, del, ipc, snap>>

\* the batch without try/catch: the rejection ends the handler
AfterThrowAborts(st) == [st EXCEPT !.pc = "aborted", !.sel = <<>>]

\* the catch that tries the path again: the item stays at the head of the
\* queue and goes back to its lookup
AfterThrowRetries(st) == [st EXCEPT !.pc = "lookup", !.cands = <<>>, !.sel = <<>>]

\* what a rejected await does to the invocation: getGameFromPaths catches it,
\* reports it and goes on to the next path; onAddRemoteGame has no handler
AfterThrow(st) ==
    IF st.flow = "dir" THEN EndItem(st, "failed")
    ELSE [st EXCEPT !.pc = "aborted", !.sel = <<>>]

\* the call the invocation awaits (remote lookup, chooser or store) throws
IngThrow(p) ==
    /\ ing[p].pc \in {"lookup", "choose", "fetch", "check", "insert"}
    /\ ing' = [ing EXCEPT ![p] = AfterThrow(ing[p])]
    /\ UNCHANGED <<threadDB, gameDB, nextId, syn, prevL, prevStore, updated, del, ipc, snap>>

\* the handler returns, or its rejection reaches the event loop
IngReturn(p) ==
    /\ ing[p].pc \in {"done", "aborted"}
    /\ ing' = [ing EXCEPT ![p] = IdleIng]
    /\ UNCHANGED <<threadDB, gameDB, nextId, syn, prevL, prevStore, updated, del, ipc, snap>>

----------------------------------------------------------------------------
(* gameCardDelete(e): the user removes a game from the library *)

IdleDel == [pc |-> "idle", card |-> 0, button |-> "none"]

\* the buttons of the confirmation dialog; "none" is a dialog that returns
\* no data
DeleteButtons == {"remove-only", "delete", "cancel", "none"}

\* the delete event of the card of the record `dbid`: the dialog is prepared
\* and shown
CardDeleteStart(dbid) ==
    /\ del.pc = "idle"
    /\ \E k \in 1..Len(gameDB) : gameDB[k]._id = dbid
    /\ del' = [pc |-> "confirm", card |-> dbid, button |-> "none"]
    /\ UNCHANGED <<ing, threadDB, gameDB, nextId, syn, prevL, prevStore, updated, ipc, snap>>

\* data = await window.API.invoke("require-messagebox", dialogOptions) returned
CardDeleteAnswer(button) ==
    /\ del.pc = "confirm"
    /\ del' = IF button \in {"cancel", "none"} THEN IdleDel
              ELSE [del EXCEPT !.pc = "files", !.button = button]
    /\ UNCHANGED <<ing, threadDB, gameDB, nextId, syn, prevL, prevStore, updated, ipc, snap>>

\* the saves are copied and, for "delete", the game folder is deleted
CardDeleteFiles ==
    /\ del.pc = "files"
    /\ del' = [del EXCEPT !.pc = "remove"]
    /\ UNCHANGED <<ing, threadDB, gameDB, nextId, syn, prevL, prevStore, updated, ipc, snap>>

\* await e.target.deleteData() returned: the record of the card is removed
CardDeleteData ==
    /\ del.pc = "remove"
    /\ gameDB' = DbDelete(gameDB, del.card)
    /\ del' = IdleDel
    /\ UNCHANGED <<ing, threadDB, nextId, syn, prevL, prevStore, updated, ipc, snap>>

\* an awaited call of the handler throws: nothing catches it
CardDeleteThrow ==
    /\ del.pc \in {"confirm", "files", "remove"}
    /\ del' = IdleDel
    /\ UNCHANGED <<ing, threadDB, gameDB, nextId, syn, prevL, prevStore, updated, ipc, snap>>

----------------------------------------------------------------------------
(* The message-box preload (src/unnamed/part_000): the API it exposes to    *)
(* the page of the message box                                              *)

\* const validSendChannels = [...]: the render-to-main channels
validSendChannels == <<"window-close", "window-resize", "translate">>

\* const validReceiveChannels = [...]: the main-to-render channels
validReceiveChannels == <<"window-arguments">>

\* the channel names a page can pass: the listed ones, the channel of cwd()
\* and a channel no list holds
Channels ==
    Range(validSendChannels) \cup Range(validReceiveChannels) \cup {"cwd", "exec"}

\* no call has been made
NoCalls == <<>>

\* one call on the API: the function called, the channel it was given ("" for
\* a function that takes none), what ipcRenderer was asked to send or invoke
\* (at most one message), the channel a listener was registered for (at most
\* one) and whether a warning was logged
Call(api, channel, out, listening, warned) ==
    [api |-> api, channel |-> channel, out |-> out, listening |-> listening,
     warned |-> warned]

\* ipcRenderer.send(channel, ...) or ipcRenderer.invoke(channel, ...)
Message(method, channel) == [method |-> method, channel |-> channel]

\* validSendChannels.includes(channel)
ValidSend(channel) == channel \in Range(validSendChannels)

\* validReceiveChannels.includes(channel)
ValidReceive(channel) == channel \in Range(validReceiveChannels)

\* the call is recorded; the page makes at most MaxCalls calls
Called(call) ==
    /\ Len(ipc) < MaxCalls
    /\ ipc' = Append(ipc, call)
    /\ UNCHANGED <<rendererVars, snap>>

\* API.send(channel, ...data)
ApiSend(channel) ==
    IF ValidSend(channel)
    THEN Called(Call("send", channel, <<Message("send", channel)>>, <<>>, FALSE))
    ELSE Called(Call("send", channel, <<>>, <<>>, TRUE))

\* API.invoke(channel, ...data)
ApiInvoke(channel) ==
    IF ValidSend(channel)
    THEN Called(Call("invoke", channel, <<Message("invoke", channel)>>, <<>>, FALSE))
    ELSE Called(Call("invoke", channel, <<>>, <<>>, TRUE))

\* API.once(channel, func)
ApiOnce(channel) ==
    IF ValidReceive(channel)
    THEN Called(Call("once", channel, <<>>, <<channel>>, FALSE))
    ELSE Called(Call("once", channel, <<>>, <<>>, FALSE))

\* API.cwd(): ipcRenderer.invoke("cwd")
ApiCwd == Called(Call("cwd", "", <<Message("invoke", "cwd")>>, <<>>, FALSE))

\* API.translate(key, interpolation): ipcRenderer.invoke("translate", ...)
ApiTranslate ==
    Called(Call("translate", "", <<Message("invoke", "translate")>>, <<>>, FALSE))

----------------------------------------------------------------------------
(* The snapshot build tool (src/unnamed/part_001): main() and the files of  *)
(* the cache, of the backup directory and of electron/dist                  *)

\* what a file holds: Absent, Original for the file electron shipped, and r
\* for the file generated by run r of the tool
Absent == 0 - 1
Original == 0

\* the tool has not run: the cache and the backup directory do not exist and
\* electron/dist holds the original snapshot files
FreshSnap ==
    [pc |-> "idle", run |-> 0, valid |-> FALSE, backedUp |-> FALSE,
     hadBackup |-> FALSE,
     cacheDir |-> FALSE, cacheBlob |-> Absent, cacheSnapshot |-> Absent,
     backupDir |-> FALSE, backupBlob |-> Absent, backupSnapshot |-> Absent,
     distBlob |-> Original, distSnapshot |-> Original]

\* main() is called: fs.existsSync(cacheDir), then the await of
\* deleteFolderRecursive(cacheDir) or of createLinkedScript()
SnapStart ==
    /\ snap.pc = "idle"
    /\ snap.run < MaxRuns
    /\ snap' = [snap EXCEPT !.run = @ + 1, !.valid = FALSE, !.backedUp = FALSE,
                            !.hadBackup = snap.backupDir,
                            !.pc = IF snap.cacheDir THEN "clean" ELSE "link"]
    /\ UNCHANGED <<rendererVars, ipc>>

\* deleteFolderRecursive(cacheDir) returned: the cache and its files are gone
SnapCleaned ==
    /\ snap.pc = "clean"
    /\ snap' = [snap EXCEPT !.cacheDir = FALSE, !.cacheBlob = Absent,
                            !.cacheSnapshot = Absent, !.pc = "link"]
    /\ UNCHANGED <<rendererVars, ipc>>

\* createLinkedScript() returned; electron-link has made its cachePath or
\* has not
SnapLinked ==
    /\ snap.pc = "link"
    /\ \E made \in BOOLEAN :
          snap' = [snap EXCEPT !.cacheDir = @ \/ made, !.pc = "save"]
    /\ UNCHANGED <<rendererVars, ipc>>

\* the backup without `if (!fs.existsSync(dest))`: the files of electron/dist
\* are copied into the backup directory in every run
BackupEnteredNoTest(st) == [st EXCEPT !.backupDir = TRUE, !.pc = "backupBlob"]

\* the state once backupOriginalSnapshot(dest) is entered and has run up to
\* its first await: with no backup directory it makes one and waits for the
\* copy of the blob; with one it returns and copySnapshot waits for its
\* first copy
BackupEntered(st) ==
    IF ~st.backupDir
    THEN [st EXCEPT !.backupDir = TRUE, !.pc = "backupBlob"]
    ELSE [st EXCEPT !.backedUp = TRUE, !.pc = "copyBlob"]

\* saveSnapshotScript returned (the cache directory is there to write to);
\* testSnapshotScript says ok or not; when not, the backup is entered
SnapSaved ==
    /\ snap.pc = "save"
    /\ snap.cacheDir
    /\ \E ok \in BOOLEAN :
          snap' = IF ok
                  THEN [snap EXCEPT !.valid = TRUE, !.pc = "generate"]
                  ELSE BackupEntered([snap EXCEPT !.valid = FALSE])
    /\ UNCHANGED <<rendererVars, ipc>>

\* createV8Snapshot(snapshotScriptPath, cacheDir) returned: mksnapshot wrote
\* the two files into the cache; the backup is entered
SnapGenerated ==
    /\ snap.pc = "generate"
    /\ snap' = BackupEntered([snap EXCEPT !.cacheBlob = snap.run,
                                          !.cacheSnapshot = snap.run])
    /\ UNCHANGED <<rendererVars, ipc>>

\* await acopyfile(blobSrc, blobDest) returned
SnapBackupBlob ==
    /\ snap.pc = "backupBlob"
    /\ snap' = [snap EXCEPT !.backupBlob = snap.distBlob, !.pc = "backupSnapshot"]
    /\ UNCHANGED <<rendererVars, ipc>>

\* await acopyfile(snapshotSrc, snapshotDest) returned:
\* backupOriginalSnapshot returns and copySnapshot waits for its first copy
SnapBackupSnapshot ==
    /\ snap.pc = "backupSnapshot"
    /\ snap' = [snap EXCEPT !.backupSnapshot = snap.distSnapshot,
                            !.backedUp = TRUE, !.pc = "copyBlob"]
    /\ UNCHANGED <<rendererVars, ipc>>

\* await acopyfile(cacheBlobPath, originalBlobPath): it rejects when the
\* cache holds no blob
SnapCopyBlob ==
    /\ snap.pc = "copyBlob"
    /\ snap' = IF snap.cacheBlob = Absent
               THEN [snap EXCEPT !.pc = "failed"]
               ELSE [snap EXCEPT !.distBlob = snap.cacheBlob, !.pc = "copySnapshot"]
    /\ UNCHANGED <<rendererVars, ipc>>

\* await acopyfile(cacheSnapshotPath, originalSnapshotPath)
SnapCopySnapshot ==
    /\ snap.pc = "copySnapshot"
    /\ snap' = IF snap.cacheSnapshot = Absent
               THEN [snap EXCEPT !.pc = "failed"]
               ELSE [snap EXCEPT !.distSnapshot = snap.cacheSnapshot, !.pc = "done"]
    /\ UNCHANGED <<rendererVars, ipc>>

\* the call main() awaits rejects: main() rejects. mksnapshot that fails may
\* have written the blob already
SnapThrow ==
    /\ snap.pc \in {"clean", "link", "save", "generate", "backupBlob",
                    "backupSnapshot", "copyBlob", "copySnapshot"}
    /\ \E blob \in {snap.cacheBlob, snap.run} :
          snap' = [snap EXCEPT !.pc = "failed",
                               !.cacheBlob = IF snap.pc = "generate" THEN blob
                                             ELSE @]
    /\ UNCHANGED <<rendererVars, ipc>>

\* main() resolved, or main().catch logged the error: the process ends
SnapExit ==
    /\ snap.pc \in {"done", "failed"}
    /\ snap' = [snap EXCEPT !.pc = "idle"]
    /\ UNCHANGED <<rendererVars, ipc>>

----------------------------------------------------------------------------
(* syncDatabaseWatchedThreads as a function of the list and the store, for  *)
(* a pass that runs alone and whose fetches all succeed                     *)

RECURSIVE PassLoop(_, _, _, _)
\* the for loop over urlList: <<store, recentIDs>> when it ends
PassLoop(L, store, newId, seen) ==
    IF L = <<>> THEN <<store, seen>>
    ELSE IF ~HasMatch(Head(L)) THEN PassLoop(Tail(L), store, newId, seen)
    ELSE LET url == Head(L)
             id == ExtractId(url)
             thread == SearchById(store, id)
         IN IF Len(thread) = 0
            THEN PassLoop(Tail(L), DbInsert(store, NewThread(url), newId),
                          newId + 1, Append(seen, id))
            ELSE IF SameUrl(thread[1], url)
            THEN PassLoop(Tail(L), store, newId, Append(seen, id))
            ELSE PassLoop(Tail(L), DbWrite(store, UpdatedThread(thread[1], url)),
                          newId, Append(seen, id))

\* the store the pass leaves
PassResult(L, store, newId) ==
    LET r == PassLoop(L, store, newId, <<>>)
    IN SelectSeq(r[1], LAMBDA t : ~Unsubscribed(t, r[2]))

----------------------------------------------------------------------------
(* Stores the program can start from *)

StoredThread(dbid, url, upd, read) ==
    [f \in DOMAIN TIConvert(GetGameDataFromURL(url)) \cup {"_id"} |->
        CASE f = "_id" -> dbid
          [] f = "updateAvailable" -> upd
          [] f = "markedAsRead" -> read
          [] OTHER -> TIConvert(GetGameDataFromURL(url))[f]]

\* the flags a stored thread can carry: new, updated and unread, updated and
\* read by the user
ThreadFlags == {<<FALSE, FALSE>>, <<TRUE, FALSE>>, <<TRUE, TRUE>>}

\* thread stores left by earlier passes: at most one record per id
InitThreadStores ==
    LET one == {<<>>} \cup {<<StoredThread(1, u, fl[1], fl[2])>> :
                               u \in {U1, U1v}, fl \in ThreadFlags}
        two(n) == {<<>>} \cup {<<StoredThread(n, U12, fl[1], fl[2])>> :
                                  fl \in ThreadFlags}
    IN {a \o b : a \in one, b \in two(2)} \cup
       {b \o a : a \in {<<StoredThread(2, U1, TRUE, FALSE)>>},
                 b \in {<<StoredThread(1, U12, TRUE, FALSE)>>}}

StoredGame(dbid, id, dir) ==
    [f \in DOMAIN GIEConvert(CatalogEntry(id)) \cup {"_id"} |->
        CASE f = "_id" -> dbid
          [] f = "gameDirectory" -> dir
          [] OTHER -> GIEConvert(CatalogEntry(id))[f]]

MaxDbId(db) == IF db = <<>> THEN 0 ELSE Max({db[i]._id : i \in 1..Len(db)})

InitSync ==
    /\ threadDB \in InitThreadStores
    /\ gameDB \in {<<>>, <<StoredGame(1, 12, DirGaV2)>>}
    /\ nextId = MaxDbId(threadDB) + 1
    /\ syn = [p \in SynProcs |-> IdleSyn]
    /\ ing = [p \in IngProcs |-> IdleIng]
    /\ prevL = <<>>
    /\ prevStore = <<>>
    /\ updated = <<>>
    /\ del = IdleDel
    /\ ipc = NoCalls
    /\ snap = FreshSnap

\* passes follow one another: a pass starts when none is running
NextSync ==
    \/ \E L \in WatchLists : SyncQuiet /\ SyncStart("s1", L)
    \/ \E p \in SynProcs :
          \/ SyncSkip(p)
          \/ SyncSearch(p)
          \/ SyncInsert(p)
          \/ SyncUpdate(p)
          \/ SyncFetchFail(p)
          \/ SyncScan(p)
          \/ SyncUnsubscribe(p)
          \/ SyncFinish(p)
          \/ SyncShow(p)
          \/ SyncReturn(p)

SpecSync == InitSync /\ [][NextSync]_vars

\* game libraries left by earlier ingestions: at most one record per id
InitGameStores ==
    {<<>>,
     <<StoredGame(1, 12, DirGaV2)>>,
     <<StoredGame(1, 1, DirHb)>>,
     <<StoredGame(1, 3, DirGaMod), StoredGame(2, 1, DirHb)>>}

InitIngest ==
    /\ threadDB = <<>>
    /\ gameDB \in InitGameStores
    /\ nextId = MaxDbId(gameDB) + 1
    /\ syn = [p \in SynProcs |-> IdleSyn]
    /\ ing = [p \in IngProcs |-> IdleIng]
    /\ prevL = <<>>
    /\ prevStore = <<>>
    /\ updated = <<>>
    /\ del = IdleDel
    /\ ipc = NoCalls
    /\ snap = FreshSnap

\* ingestions follow one another: a handler starts when none is running
NextIngest ==
    \/ \E picked \in DirSelections : IngQuiet /\ IngStart("g1", "dir", picked)
    \/ \E picked \in OneDirSelections : IngQuiet /\ IngStart("g1", "url", picked)
    \/ \E p \in IngProcs :
          \/ IngLookup(p)
          \/ \E button \in Buttons(Catalog) : IngChoose(p, button)
          \/ \E url \in GameUrls \cup {<<>>} : IngUrlInput(p, url)
          \/ IngFetch(p)
          \/ IngCheck(p)
          \/ IngInsert(p)
          \/ IngThrow(p)
          \/ IngReturn(p)

SpecIngest == InitIngest /\ [][NextIngest]_vars

----------------------------------------------------------------------------
(* The handlers together: a pass, an ingestion and a card removal can be   *)
(* between two of their awaits at the same time                            *)

\* the watch lists, the selections and the URLs of this specification
AppLists == {<<U1>>, <<U1v>>, <<UBad>>}
AppSelections == {<<DirGaMod>>}
AppUrls == {U1, <<>>}

InitApp ==
    /\ threadDB = <<>>
    /\ gameDB = <<>>
    /\ nextId = 1
    /\ syn = [p \in SynProcs |-> IdleSyn]
    /\ ing = [p \in IngProcs |-> IdleIng]
    /\ prevL = <<>>
    /\ prevStore = <<>>
    /\ updated = <<>>
    /\ del = IdleDel
    /\ ipc = NoCalls
    /\ snap = FreshSnap

NextApp ==
    \/ \E L \in AppLists : nextId <= MaxStarts /\ SyncQuiet /\ SyncStart("s1", L)
    \/ \E p \in SynProcs :
          \/ SyncSkip(p)
          \/ SyncSearch(p)
          \/ SyncInsert(p)
          \/ SyncUpdate(p)
          \/ SyncFetchFail(p)
          \/ SyncScan(p)
          \/ SyncUnsubscribe(p)
          \/ SyncFinish(p)
          \/ SyncShow(p)
          \/ SyncReturn(p)
    \/ \E picked \in AppSelections :
          nextId <= MaxStarts /\ IngQuiet /\ IngStart("g1", "dir", picked)
    \/ \E picked \in AppSelections :
          nextId <= MaxStarts /\ IngQuiet /\ IngStart("g1", "url", picked)
    \/ \E p \in IngProcs :
          \/ IngLookup(p)
          \/ \E button \in Buttons(Catalog) : IngChoose(p, button)
          \/ \E url \in AppUrls : IngUrlInput(p, url)
          \/ IngFetch(p)
          \/ IngCheck(p)
          \/ IngInsert(p)
          \/ IngThrow(p)
          \/ IngReturn(p)
    \/ \E dbid \in 1..MaxId : CardDeleteStart(dbid)
    \/ \E button \in DeleteButtons : CardDeleteAnswer(button)
    \/ CardDeleteFiles
    \/ CardDeleteData
    \/ CardDeleteThrow

SpecApp == InitApp /\ [][NextApp]_vars

----------------------------------------------------------------------------
(* Two invocations of the same handler at once: the login event fires again *)
(* while a pass is between two awaits, the add-game button is clicked again *)
(* while a batch is                                                         *)

\* the watch lists and the selections of this specification
RaceLists == {<<U1>>}
RaceSelections == {<<DirHb>>}

NextRace ==
    \/ \E p \in SynProcs : \E L \in RaceLists :
          nextId <= MaxStarts /\ SyncStart(p, L)
    \/ \E p \in SynProcs :
          \/ SyncSearch(p)
          \/ SyncInsert(p)
          \/ SyncFetchFail(p)
          \/ SyncScan(p)
          \/ SyncUnsubscribe(p)
          \/ SyncFinish(p)
          \/ SyncShow(p)
          \/ SyncReturn(p)
    \/ \E p \in IngProcs : \E picked \in RaceSelections :
          nextId <= MaxStarts /\ IngStart(p, "dir", picked)
    \/ \E p \in IngProcs :
          \/ IngLookup(p)
          \/ IngCheck(p)
          \/ IngInsert(p)
          \/ IngThrow(p)
          \/ IngReturn(p)

SpecRace == InitApp /\ [][NextRace]_vars

----------------------------------------------------------------------------
(* Passes and directory batches of several items, one handler at a time *)

\* the watch lists and the selections of this specification
SeqLists == UNION {[1..n -> {U1, U1v, UBad}] : n \in 1..MaxLen}
SeqSelections ==
    {sel \in UNION {[1..k -> {DirGaMod, DirHb}] : k \in 1..MaxPaths} :
        \A i, j \in 1..Len(sel) : sel[i] = sel[j] => i = j}

NextSeq ==
    \/ \E L \in SeqLists :
          nextId <= MaxStarts /\ SyncQuiet /\ IngQuiet /\ SyncStart("s1", L)
    \/ \E p \in SynProcs :
          \/ SyncSkip(p)
          \/ SyncSearch(p)
          \/ SyncInsert(p)
          \/ SyncUpdate(p)
          \/ SyncFetchFail(p)
          \/ SyncScan(p)
          \/ SyncUnsubscribe(p)
          \/ SyncFinish(p)
          \/ SyncShow(p)
          \/ SyncReturn(p)
    \/ \E picked \in SeqSelections :
          nextId <= MaxStarts /\ SyncQuiet /\ IngQuiet
             /\ IngStart("g1", "dir", picked)
    \/ \E p \in IngProcs :
          \/ IngLookup(p)
          \/ \E button \in Buttons(Catalog) : IngChoose(p, button)
          \/ IngCheck(p)
          \/ IngInsert(p)
          \/ IngThrow(p)
          \/ IngReturn(p)

SpecSeq == InitApp /\ [][NextSeq]_vars

\* a step of pass p after its start: the continuation of one of its awaits
PassStep(p) ==
    \/ SyncSkip(p)
    \/ SyncSearch(p)
    \/ SyncInsert(p)
    \/ SyncUpdate(p)
    \/ SyncFetchFail(p)
    \/ SyncScan(p)
    \/ SyncUnsubscribe(p)
    \/ SyncFinish(p)
    \/ SyncShow(p)
    \/ SyncReturn(p)

\* a step of batch p after its start, other than the end of the message box:
\* the continuation of an await on the remote lookup or on the store, which
\* returns or throws
BatchStep(p) ==
    /\ ing[p].pc # "choose"
    /\ \/ IngLookup(p)
       \/ IngCheck(p)
       \/ IngInsert(p)
       \/ IngThrow(p)
       \/ IngReturn(p)

\* the same handlers, every remote fetch and every store call of which
\* returns or fails in the end; nothing is assumed of the message box
\* the watch lists and the selection of the specification below: a list that
\* holds one thread under two URLs, a list without id, and a directory that
\* goes to the message box followed by one that does not
LiveLists == {<<U1, U1v>>, <<UBad>>}
LiveSelections == {<<DirGaMod, DirHb>>}

NextLive ==
    \/ \E L \in LiveLists :
          nextId <= MaxStarts /\ SyncQuiet /\ IngQuiet /\ SyncStart("s1", L)
    \/ \E p \in SynProcs : PassStep(p)
    \/ \E picked \in LiveSelections :
          nextId <= MaxStarts /\ SyncQuiet /\ IngQuiet
             /\ IngStart("g1", "dir", picked)
    \/ \E p \in IngProcs : BatchStep(p)
    \/ \E p \in IngProcs, button \in Buttons(Catalog) : IngChoose(p, button)

SpecLive ==
    /\ InitApp
    /\ [][NextLive]_vars
    /\ \A p \in SynProcs : WF_vars(PassStep(p))
    /\ \A p \in IngProcs : WF_vars(BatchStep(p))

----------------------------------------------------------------------------
(* Passes over one watch URL of any shape (every string of dots, digits and *)
(* letters up to a length) and over a few lists of two URLs                 *)

UrlChars == {"a", ".", "1", "3"}

ShapedUrls == UNION {[1..n -> UrlChars] : n \in 1..MaxUrlLen}

\* lists of two URLs, of which one has two dots followed by digits
PairUrls == {<<".", "1", ".", "3">>, <<".", "3">>, <<".", "1">>}

ShapedLists ==
    {<<url>> : url \in ShapedUrls} \cup {<<a, b>> : a \in PairUrls, b \in PairUrls}

\* the thread stores these passes start from
ShapedStores ==
    {<<>>,
     <<StoredThread(1, <<".", "1">>, FALSE, FALSE)>>,
     <<StoredThread(1, <<"a", ".", "3">>, TRUE, TRUE)>>}

InitUrl ==
    /\ threadDB \in ShapedStores
    /\ gameDB = <<>>
    /\ nextId = MaxDbId(threadDB) + 1
    /\ syn = [p \in SynProcs |-> IdleSyn]
    /\ ing = [p \in IngProcs |-> IdleIng]
    /\ prevL = <<>>
    /\ prevStore = <<>>
    /\ updated = <<>>
    /\ del = IdleDel
    /\ ipc = NoCalls
    /\ snap = FreshSnap

\* a pass starts while the store is one of the stores above; the fetch of a
\* URL succeeds only when the URL addresses a thread
NextUrl ==
    \/ \E L \in ShapedLists :
          threadDB \in ShapedStores /\ SyncQuiet /\ SyncStart("s1", L)
    \/ \E p \in SynProcs :
          \/ SyncSkip(p)
          \/ SyncSearch(p)
          \/ syn[p].pc = "fetchIns" /\ Addressed(CurUrl(p)) /\ SyncInsert(p)
          \/ syn[p].pc = "fetchUpd" /\ Addressed(CurUrl(p)) /\ SyncUpdate(p)
          \/ SyncFetchFail(p)
          \/ SyncScan(p)
          \/ SyncUnsubscribe(p)
          \/ SyncFinish(p)
          \/ SyncShow(p)
          \/ SyncReturn(p)

SpecUrl == InitUrl /\ [][NextUrl]_vars

----------------------------------------------------------------------------
(* Large selections: many directories of two names; directories of         *)
(* different parents can have the same name                                 *)

PickSelections == UNION {[1..k -> {DirGaV2, DirZz}] : k \in 0..MaxPick}

PickLibraries == {<<>>, <<StoredGame(1, 12, DirGaV2)>>}

InitPick ==
    /\ threadDB = <<>>
    /\ gameDB \in PickLibraries
    /\ nextId = MaxDbId(gameDB) + 1
    /\ syn = [p \in SynProcs |-> IdleSyn]
    /\ ing = [p \in IngProcs |-> IdleIng]
    /\ prevL = <<>>
    /\ prevStore = <<>>
    /\ updated = <<>>
    /\ del = IdleDel
    /\ ipc = NoCalls
    /\ snap = FreshSnap

NextPick ==
    \/ \E picked \in PickSelections : IngQuiet /\ IngStart("g1", "dir", picked)
    \/ \E p \in IngProcs :
          \/ IngLookup(p)
          \/ IngCheck(p)
          \/ IngInsert(p)
          \/ IngThrow(p)
          \/ IngReturn(p)

SpecPick == InitPick /\ [][NextPick]_vars

----------------------------------------------------------------------------
(* Directory names of any shape: every sequence of a few pieces, among them *)
(* the version marker in both letter cases, brackets and the mod tag        *)

NamePieces ==
    {<<"a">>, <<"1">>, <<"]">>, <<"[", "v", ".">>, <<"[", "V", ".">>,
     <<"[", "M", "O", "D", "]">>, <<"[", "m", "O", "d", "]">>,
     <<"[", "M", "O", "D">>}

RECURSIVE Concat(_)
Concat(pieces) == IF pieces = <<>> THEN <<>> ELSE Head(pieces) \o Concat(Tail(pieces))

RawNames == {Concat(ps) : ps \in UNION {[1..n -> NamePieces] : n \in 1..MaxPieces}}

\* one directory is selected at a time, the library is empty
NextParse ==
    \/ \E raw \in RawNames : IngQuiet /\ IngStart("g1", "dir", <<raw>>)
    \/ \E p \in IngProcs :
          \/ IngLookup(p)
          \/ IngThrow(p)
          \/ IngReturn(p)

SpecParse == InitApp /\ [][NextParse]_vars

----------------------------------------------------------------------------
(* The message box calls the API of its preload *)

NextPreload ==
    \/ \E channel \in Channels : ApiSend(channel)
    \/ \E channel \in Channels : ApiInvoke(channel)
    \/ \E channel \in Channels : ApiOnce(channel)
    \/ ApiCwd
    \/ ApiTranslate

SpecPreload == InitApp /\ [][NextPreload]_vars

----------------------------------------------------------------------------
(* Runs of the snapshot build tool, one after the other *)

NextSnapshot ==
    \/ SnapStart
    \/ SnapCleaned
    \/ SnapLinked
    \/ SnapSaved
    \/ SnapGenerated
    \/ SnapBackupBlob
    \/ SnapBackupSnapshot
    \/ SnapCopyBlob
    \/ SnapCopySnapshot
    \/ SnapThrow
    \/ SnapExit

SpecSnapshot == InitApp /\ [][NextSnapshot]_vars

----------------------------------------------------------------------------
(* getUpdatedThreads() on the stores a pass can leave: up to three watched  *)
(* threads in any order, two of them with names equal but for case          *)

ViewUrls == {U1, U12, U3}

\* the thread stores: every order of every set of watched threads, with every
\* combination of flags
ViewThreadStores ==
    LET orders == {o \in UNION {[1..n -> ViewUrls] : n \in 0..Cardinality(ViewUrls)} :
                      \A i, j \in 1..Len(o) : o[i] = o[j] => i = j}
    IN UNION {{[i \in 1..Len(o) |-> StoredThread(i, o[i], fl[i][1], fl[i][2])] :
                  fl \in [1..Len(o) -> ThreadFlags]} : o \in orders}

ViewGameStores ==
    {<<>>,
     <<StoredGame(1, 12, DirGaV2)>>,
     <<StoredGame(1, 3, DirGaMod)>>,
     <<StoredGame(1, 3, DirGaMod), StoredGame(2, 1, DirHb)>>}

\* syncDatabaseWatchedThreads has just returned
InitView ==
    /\ threadDB \in ViewThreadStores
    /\ gameDB \in ViewGameStores
    /\ nextId = Max({MaxDbId(threadDB), MaxDbId(gameDB)}) + 1
    /\ syn = [p \in SynProcs |-> IF p = "s1" THEN [IdleSyn EXCEPT !.pc = "done"]
                                 ELSE IdleSyn]
    /\ ing = [p \in IngProcs |-> IdleIng]
    /\ prevL = <<>>
    /\ prevStore = <<>>
    /\ updated = <<>>
    /\ del = IdleDel
    /\ ipc = NoCalls
    /\ snap = FreshSnap

NextView == \E p \in SynProcs : SyncShow(p) \/ SyncReturn(p)

SpecView == InitView /\ [][NextView]_vars

----------------------------------------------------------------------------
(* Properties of the synchronization pass *)

Completed(p) == syn[p].pc \in {"done", "shown"}

OpsOf(log, ops) == SelectSeq(log, LAMBDA e : e.op \in ops)

\* the list holds the id under two different URL texts
IdUnderTwoUrls(L, id) ==
    \E i, j \in 1..Len(L) :
        /\ HasMatch(L[i]) /\ HasMatch(L[j])
        /\ ExtractId(L[i]) = id /\ ExtractId(L[j]) = id
        /\ L[i] # L[j]

HasDbId(db, dbid) == \E i \in 1..Len(db) : db[i]._id = dbid

\* C2: when a pass over L completes, every record that was in the store when
\* it started and whose id is not extracted from L is gone, every record
\* whose id is extracted from L is still there, and no record with an id of
\* L was deleted.
C2_Unsubscribe ==
    \A p \in SynProcs :
        Completed(p) =>
            LET ids == ExtractedIds(syn[p].urlList)
                was == syn[p].startStore
            IN /\ \A i \in 1..Len(was) :
                     HasDbId(threadDB, was[i]._id) <=> was[i].id \in ids
               /\ \A i \in 1..Len(threadDB) : threadDB[i].id \in ids
               /\ \A i \in 1..Len(syn[p].log) :
                     syn[p].log[i].op = "delete" => syn[p].log[i].key \notin ids

\* a pass completed that deleted one stored thread and kept another
C2_Witness ==
    \E p \in SynProcs :
        /\ Completed(p)
        /\ OpsOf(syn[p].log, {"delete"}) # <<>>
        /\ \E i \in 1..Len(syn[p].startStore) :
              HasDbId(threadDB, syn[p].startStore[i]._id)

WithId(L) == SelectSeq(L, HasMatch)

\* C4: a completed pass over L leaves the store that a pass over L without
\* its id-less URLs leaves: such a URL creates, updates and deletes nothing.
C4_IdlessUrlSkipped ==
    \A p \in SynProcs :
        Completed(p) =>
            threadDB = PassResult(WithId(syn[p].urlList), syn[p].startStore,
                                  syn[p].startId)

\* a pass over a list with an id-less URL before a URL with an id completed,
\* on a store that held records and still holds some
C4_Witness ==
    \E p \in SynProcs :
        /\ Completed(p)
        /\ Len(syn[p].urlList) = 2
        /\ ~HasMatch(syn[p].urlList[1]) /\ HasMatch(syn[p].urlList[2])
        /\ syn[p].startStore # <<>> /\ threadDB # <<>>

\* C5: no thread that getUpdatedThreads() returned has the id of a game of
\* the game store.
C5_VisibilityFilter ==
    \A p \in SynProcs :
        syn[p].pc = "shown" =>
            \A i \in 1..Len(updated) : Len(SearchById(gameDB, updated[i].id)) = 0

\* getUpdatedThreads() returned a thread and held back the updated, unread
\* thread of an installed game
C5_Witness ==
    \E p \in SynProcs :
        /\ syn[p].pc = "shown"
        /\ updated # <<>>
        /\ \E i \in 1..Len(threadDB) :
              /\ NeedsAttention(threadDB[i])
              /\ Len(SearchById(gameDB, threadDB[i].id)) # 0

----------------------------------------------------------------------------
(* Properties of the ingestion *)

\* C7: the game store never holds two records with the same remote id.
C7_GameUnique ==
    \A i, j \in 1..Len(gameDB) : gameDB[i].id = gameDB[j].id => i = j

\* an ingestion ended one item as already listed, in a library of at least
\* two games one of which it inserted
C7_Witness ==
    \E p \in IngProcs :
        /\ ing[p].pc = "done"
        /\ Len(gameDB) >= 2
        /\ \E i, j \in 1..Len(ing[p].results) :
              /\ ing[p].results[i].outcome = "inserted"
              /\ ing[p].results[j].outcome = "listed"

\* the key two names are compared by: tags and special characters stripped,
\* trimmed, case-folded
NormalizedKey(name) == ToUpperCase(Trim(StripSpecials(StripTags(name))))

KeyInLibrary(path, games) ==
    \E i \in 1..Len(games) : NormalizedKey(games[i].name) = NormalizedKey(path)

\* C8 as stated: no GameRecord is inserted for a directory whose normalized
\* name is the normalized name of a record the store holds at that moment.
C8_NoInsertUnderListedName ==
    [][\A p \in IngProcs :
          (ing[p].pc = "insert" /\ gameDB' # gameDB) =>
              ~KeyInLibrary(Head(ing[p].queue), gameDB)]_vars

\* C8 amended: a selected directory whose normalized name is the normalized
\* name of a record that the store holds when the selection is filtered is
\* dropped there: the invocation processes no item and creates no record for
\* it.
C8_ListedNameRejected ==
    \A p \in IngProcs :
        \A i \in 1..Len(ing[p].picked) :
            KeyInLibrary(ing[p].picked[i], ing[p].startGames) =>
                /\ ing[p].picked[i] \notin Range(ing[p].queue)
                /\ \A k \in 1..Len(ing[p].results) :
                      ing[p].results[k].path # ing[p].picked[i]
                /\ \A k \in 1..Len(gameDB) :
                      gameDB[k].gameDirectory = ing[p].picked[i] =>
                          gameDB[k] \in Range(ing[p].startGames)

\* a batch with a directory of a listed name, differently cased and tagged,
\* and a directory that it inserted has ended
C8_Witness ==
    \E p \in IngProcs :
        /\ ing[p].pc = "done"
        /\ \E i \in 1..Len(ing[p].picked) :
              /\ KeyInLibrary(ing[p].picked[i], ing[p].startGames)
              /\ ~\E k \in 1..Len(ing[p].startGames) :
                     ing[p].startGames[k].name = cleanGameName(ing[p].picked[i])
        /\ \E k \in 1..Len(ing[p].results) : ing[p].results[k].outcome = "inserted"

ResultPaths(results) == [k \in 1..Len(results) |-> results[k].path]

\* the paths the name filter lets through, by the key of the names
PassedOn(picked, games) == SelectSeq(picked, LAMBDA x : ~KeyInLibrary(x, games))

\* C9: a directory batch is never aborted: its items end one by one in the
\* order of the paths, whatever the outcome of the earlier ones, until every
\* path has ended; and what an item inserted stays in the store.
C9_BatchIsolation ==
    \A p \in IngProcs :
        ing[p].flow = "dir" =>
            LET todo == PassedOn(ing[p].picked, ing[p].startGames)
                n == Len(ing[p].results)
            IN /\ ing[p].pc # "aborted"
               /\ n <= Len(todo)
               /\ ResultPaths(ing[p].results) = SubSeq(todo, 1, n)
               /\ ing[p].queue = SubSeq(todo, n + 1, Len(todo))
               /\ ing[p].pc = "done" => n = Len(todo)
               /\ \A k \in 1..n :
                     ing[p].results[k].outcome = "inserted" =>
                         \E g \in 1..Len(gameDB) :
                             gameDB[g].gameDirectory = ing[p].results[k].path

\* a batch whose first item failed has inserted its second item and ended
C9_Witness ==
    \E p \in IngProcs :
        /\ ing[p].flow = "dir" /\ ing[p].pc = "done"
        /\ Len(ing[p].results) = 2
        /\ ing[p].results[1].outcome = "failed"
        /\ ing[p].results[2].outcome = "inserted"

IdInLibrary(id, games) == \E k \in 1..Len(games) : games[k].id = id

\* the step threw: the item ended as failed or the URL handler was aborted
Threw(p) ==
    \/ ing'[p].pc = "aborted"
    \/ /\ Len(ing'[p].results) = Len(ing[p].results) + 1
       /\ ing'[p].results[Len(ing'[p].results)].outcome = "failed"

\* C10: in both flows, when the lookup by id returns and the store holds a
\* record with the id of the chosen game, the item ends as already listed
\* and the store is unchanged; and the store changes only by the insert of a
\* record whose id no record of the store has.
C10_IdCheck ==
    [][/\ \A p \in IngProcs :
             (ing[p].pc = "check" /\ ing'[p] # ing[p] /\ ~Threw(p)
                /\ IdInLibrary(ing[p].sel[1].id, gameDB)) =>
                    /\ gameDB' = gameDB
                    /\ ing'[p].pc # "insert"
                    /\ ing'[p].results =
                          Append(ing[p].results,
                                 [path |-> Head(ing[p].queue), outcome |-> "listed"])
       /\ gameDB' # gameDB =>
             \E p \in IngProcs :
                /\ ing[p].pc = "insert"
                /\ ~IdInLibrary(ing[p].sel[1].id, gameDB)
                /\ Len(gameDB') = Len(gameDB) + 1
                /\ SubSeq(gameDB', 1, Len(gameDB)) = gameDB
                /\ gameDB'[Len(gameDB')].id = ing[p].sel[1].id]_vars

\* the URL handler has ended its item as already listed, the library as it
\* was
C10_Witness ==
    \E p \in IngProcs :
        /\ ing[p].flow = "url" /\ ing[p].pc = "done"
        /\ Len(ing[p].results) = 1
        /\ ing[p].results[1].outcome = "listed"
        /\ gameDB = ing[p].startGames

\* the candidates the remote search returns for a directory
Candidates(path) == GetGameData(getDirInfo(path).name, getDirInfo(path).mod)

\* the records of the store that the invocation found there or did not make
\* for `path`
NoRecordFor(p, path) ==
    \A k \in 1..Len(gameDB) :
        gameDB[k].gameDirectory = path => gameDB[k] \in Range(ing[p].startGames)

\* C11: when the search by name returns no game for a directory, the item
\* ends as "no game found" (the warning of that name is what the outcome
\* records), the message box is not shown, and the game store and the thread
\* store are as they were; no record is ever made for such an item.
C11_ZeroMatches ==
    /\ [][\A p \in IngProcs :
             (/\ ing[p].pc = "lookup" /\ ing'[p] # ing[p] /\ ~Threw(p)
              /\ Len(Candidates(Head(ing[p].queue))) = 0) =>
                 /\ ing'[p].results =
                       Append(ing[p].results,
                              [path |-> Head(ing[p].queue), outcome |-> "nomatch"])
                 /\ ing'[p].pc \in {"lookup", "done"}
                 /\ ing'[p].asked = ing[p].asked
                 /\ gameDB' = gameDB /\ threadDB' = threadDB]_vars
    /\ [](\A p \in IngProcs : \A k \in 1..Len(ing[p].results) :
             ing[p].results[k].outcome = "nomatch" =>
                 /\ NoRecordFor(p, ing[p].results[k].path)
                 /\ \A a \in 1..Len(ing[p].asked) :
                       ing[p].asked[a].path # ing[p].results[k].path)

\* a batch ended whose first directory had no match and whose second was
\* inserted
C11_Witness ==
    \E p \in IngProcs :
        /\ ing[p].pc = "done" /\ Len(ing[p].results) = 2
        /\ ing[p].results[1].outcome = "nomatch"
        /\ Len(Candidates(ing[p].results[1].path)) = 0
        /\ ing[p].results[2].outcome = "inserted"

\* C12: when the message box of an item with several candidates is closed,
\* the item ends there as cancelled, no record is inserted for it, the
\* handler is not aborted and goes on to the next path of the batch.
C12_DeclinedChooser ==
    /\ [][\A p \in IngProcs :
             (/\ ing[p].pc = "choose"
              /\ Len(ing'[p].asked) = Len(ing[p].asked) + 1
              /\ ing'[p].asked[Len(ing'[p].asked)].button = CloseButton) =>
                 /\ Len(ing[p].cands) > 1
                 /\ ing'[p].results =
                       Append(ing[p].results,
                              [path |-> Head(ing[p].queue), outcome |-> "cancelled"])
                 /\ ing'[p].queue = Tail(ing[p].queue)
                 /\ ing'[p].pc = IF Tail(ing[p].queue) = <<>> THEN "done"
                                 ELSE "lookup"
                 /\ gameDB' = gameDB /\ threadDB' = threadDB]_vars
    /\ [](\A p \in IngProcs : \A k \in 1..Len(ing[p].results) :
             ing[p].results[k].outcome = "cancelled" =>
                 NoRecordFor(p, ing[p].results[k].path))

\* a batch ended whose first item was cancelled in the message box and whose
\* second item was inserted
C12_Witness ==
    \E p \in IngProcs :
        /\ ing[p].pc = "done" /\ Len(ing[p].results) = 2
        /\ ing[p].results[1].outcome = "cancelled"
        /\ ing[p].asked # <<>> /\ ing[p].asked[1].button = CloseButton
        /\ ing[p].results[2].outcome = "inserted"

\* the records the invocation has made for `path`
RecordsFor(p, path) ==
    SelectSeq(gameDB, LAMBDA g : /\ g.gameDirectory = path
                                 /\ g \notin Range(ing[p].startGames))

\* C13: when the search returns two or more candidates, the message box is
\* shown (no candidate is selected by the lookup), with the candidates and
\* their buttons in the order of the search result; the game the resolver
\* returns is the candidate whose id is the button pressed; and the one
\* record inserted for such an item of a directory batch has that id.
C13_ConflictResolution ==
    /\ [][\A p \in IngProcs :
             (/\ ing[p].pc = "lookup" /\ ing'[p] # ing[p] /\ ~Threw(p)
              /\ Len(Candidates(Head(ing[p].queue))) > 1) =>
                 /\ ing'[p].pc = "choose"
                 /\ ing'[p].cands = Candidates(Head(ing[p].queue))
                 /\ ing'[p].sel = <<>>
                 /\ gameDB' = gameDB]_vars
    /\ [][\A p \in IngProcs :
             (/\ ing[p].pc = "choose"
              /\ Len(ing'[p].asked) = Len(ing[p].asked) + 1
              /\ ing'[p].asked[Len(ing'[p].asked)].button # CloseButton) =>
                 LET e == ing'[p].asked[Len(ing'[p].asked)]
                     list == Candidates(Head(ing[p].queue))
                 IN /\ e.cands = list
                    /\ e.buttons = [i \in 1..Len(list) + 1 |->
                                       IF i <= Len(list) THEN ToDigits(list[i].id)
                                       ELSE CloseButton]
                    /\ ing'[p].pc = "check"
                    /\ Len(ing'[p].sel) = 1
                    /\ ing'[p].sel[1] \in Range(list)
                    /\ ToDigits(ing'[p].sel[1].id) = e.button
                    /\ gameDB' = gameDB]_vars
    /\ [](\A p \in IngProcs : \A k \in 1..Len(ing[p].results) :
             LET path == ing[p].results[k].path
             IN (ing[p].flow = "dir" /\ ing[p].results[k].outcome = "inserted"
                   /\ Len(Candidates(path)) > 1) =>
                    /\ \E a \in 1..Len(ing[p].asked) :
                          /\ ing[p].asked[a].path = path
                          /\ Len(RecordsFor(p, path)) = 1
                          /\ ToDigits(RecordsFor(p, path)[1].id) =
                                ing[p].asked[a].button
                    /\ \A a, b \in 1..Len(ing[p].asked) :
                          (ing[p].asked[a].path = path
                             /\ ing[p].asked[b].path = path) => a = b)

\* the user pressed the button of the second of two candidates and the item
\* was inserted under that candidate's id
C13_Witness ==
    \E p \in IngProcs :
        /\ ing[p].pc = "done" /\ Len(ing[p].asked) = 1
        /\ Len(ing[p].asked[1].cands) = 2
        /\ ing[p].asked[1].button = ToDigits(ing[p].asked[1].cands[2].id)
        /\ \E k \in 1..Len(ing[p].results) :
              /\ ing[p].results[k].outcome = "inserted"
              /\ ing[p].results[k].path = ing[p].asked[1].path
        /\ Len(RecordsFor(p, ing[p].asked[1].path)) = 1
        /\ RecordsFor(p, ing[p].asked[1].path)[1].id = ing[p].asked[1].cands[2].id

\* the record GameDB.insert stored at the step
Inserted == gameDB'[Len(gameDB')]

\* the step is the insert of invocation p
InsertStep(p) ==
    /\ ing[p].pc = "insert" /\ Len(gameDB') = Len(gameDB) + 1
    /\ SubSeq(gameDB', 1, Len(gameDB)) = gameDB

\* C14 as stated: the record an ingestion inserts is the remote metadata of
\* the chosen game with version, gameDirectory and mod taken from the
\* DirInfo of the directory.
C14_RecordContent ==
    [][\A p \in IngProcs :
          InsertStep(p) =>
              LET dirInfo == getDirInfo(Head(ing[p].queue))
                  remote == GIEConvert(ing[p].sel[1])
              IN /\ Inserted.version = dirInfo.version
                 /\ Inserted.gameDirectory = dirInfo.path
                 /\ Inserted.mod = dirInfo.mod
                 /\ \A f \in DOMAIN remote \ {"version", "gameDirectory", "mod"} :
                       Inserted[f] = remote[f]]_vars

\* C14, what the code does: the record an ingestion inserts is the remote
\* metadata of the chosen game, its mod flag included, with version and
\* gameDirectory taken from the DirInfo of the directory.
C14_RecordVersionAndDirectory ==
    [][\A p \in IngProcs :
          InsertStep(p) =>
              LET dirInfo == getDirInfo(Head(ing[p].queue))
                  remote == GIEConvert(ing[p].sel[1])
              IN /\ Inserted.version = dirInfo.version
                 /\ Inserted.gameDirectory = dirInfo.path
                 /\ \A f \in DOMAIN remote \ {"version", "gameDirectory"} :
                       Inserted[f] = remote[f]]_vars

\* the library holds a record made for a directory tagged [MOD], with the
\* version of its DirInfo, whose mod flag is not set
C14_Witness ==
    \E p \in IngProcs : \E k \in 1..Len(gameDB) :
        /\ gameDB[k] \notin Range(ing[p].startGames)
        /\ getDirInfo(gameDB[k].gameDirectory).mod
        /\ ~gameDB[k].mod
        /\ gameDB[k].version = getDirInfo(gameDB[k].gameDirectory).version

\* results i and j of the invocation are of two directories of one normalized
\* name, i before j
SameKeyPair(p, i, j) ==
    /\ i < j /\ j <= Len(ing[p].results)
    /\ NormalizedKey(ing[p].results[i].path) = NormalizedKey(ing[p].results[j].path)

\* C15 as stated: of two directories of one batch whose names normalize to
\* the same key, the second is not inserted once the first has been: at most
\* one record results from the pair.
C15_OneRecordPerName ==
    \A p \in IngProcs : \A i, j \in 1..Len(ing[p].results) :
        (SameKeyPair(p, i, j) /\ ing[p].results[i].outcome = "inserted") =>
            ing[p].results[j].outcome # "inserted"

\* C15 amended: of two directories of one batch whose names normalize to the
\* same key, the second ends as already listed, the store unchanged, when
\* the game resolved for it has the remote id of the record the first one
\* made; when both are inserted their records have different remote ids.
C15_SameIdRejected ==
    /\ [][\A p \in IngProcs : \A i \in 1..Len(ing[p].results) :
             (/\ ing[p].pc = "check" /\ ing'[p] # ing[p] /\ ~Threw(p)
              /\ ing[p].results[i].outcome = "inserted"
              /\ NormalizedKey(ing[p].results[i].path) =
                    NormalizedKey(Head(ing[p].queue))
              /\ \E k \in 1..Len(gameDB) :
                    /\ gameDB[k].gameDirectory = ing[p].results[i].path
                    /\ gameDB[k].id = ing[p].sel[1].id) =>
                 /\ gameDB' = gameDB
                 /\ ing'[p].results =
                       Append(ing[p].results,
                              [path |-> Head(ing[p].queue), outcome |-> "listed"])]_vars
    /\ [](\A p \in IngProcs : \A i, j \in 1..Len(ing[p].results) :
             (/\ SameKeyPair(p, i, j)
              /\ ing[p].results[i].outcome = "inserted"
              /\ ing[p].results[j].outcome = "inserted") =>
                 \A a \in 1..Len(RecordsFor(p, ing[p].results[i].path)) :
                     \A b \in 1..Len(RecordsFor(p, ing[p].results[j].path)) :
                         RecordsFor(p, ing[p].results[i].path)[a].id #
                             RecordsFor(p, ing[p].results[j].path)[b].id)

\* a batch of two directories of one normalized name ended: the first was
\* inserted and the second, resolved to the same game, ended as already
\* listed
C15_Witness ==
    \E p \in IngProcs :
        /\ ing[p].pc = "done" /\ SameKeyPair(p, 1, 2)
        /\ ing[p].results[1].outcome = "inserted"
        /\ ing[p].results[2].outcome = "listed"
        /\ Len(gameDB) = Len(ing[p].startGames) + 1

\* the position of a record in a sequence that holds it once
PositionIn(seq, rec) == CHOOSE i \in 1..Len(seq) : seq[i] = rec

\* C16: getUpdatedThreads() returns, each once, exactly the threads of the
\* store that have an update, are not marked as read and whose id no game of
\* the library has; they are in ascending order of their case-folded names,
\* and in the relative order the name-ordered query returned them in.
C16_UpdatedThreadsResult ==
    \A p \in SynProcs :
        syn[p].pc = "shown" =>
            LET queried == SortByName(SelectSeq(threadDB,
                               LAMBDA t : t.updateAvailable /\ ~t.markedAsRead))
            IN /\ \A i \in 1..Len(threadDB) :
                     threadDB[i] \in Range(updated) <=>
                         /\ threadDB[i].updateAvailable
                         /\ ~threadDB[i].markedAsRead
                         /\ \A g \in 1..Len(gameDB) : gameDB[g].id # threadDB[i].id
               /\ Range(updated) \subseteq Range(threadDB)
               /\ \A i, j \in 1..Len(updated) :
                     /\ updated[i] = updated[j] => i = j
                     /\ i < j => /\ StrLeq(ToUpperCase(updated[i].name),
                                            ToUpperCase(updated[j].name))
                                 /\ PositionIn(queried, updated[i]) <
                                       PositionIn(queried, updated[j])

\* getUpdatedThreads() returned two threads in the reverse of their store
\* order, the first with a lower-case name, and held back the thread of an
\* installed game that the query returned between or around them
C16_Witness ==
    \E p \in SynProcs :
        /\ syn[p].pc = "shown"
        /\ Len(updated) = 2 /\ Len(threadDB) = 3
        /\ \A i \in 1..3 : threadDB[i].updateAvailable /\ ~threadDB[i].markedAsRead
        /\ PositionIn(threadDB, updated[1]) > PositionIn(threadDB, updated[2])
        /\ updated[1].name # ToUpperCase(updated[1].name)
        /\ ~StrLeq(updated[1].name, updated[2].name)

\* the step is a step of a synchronization pass
SyncStep == \E p \in SynProcs : syn'[p] # syn[p]

\* the step is a step of an ingestion
IngestStep == \E p \in IngProcs : ing'[p] # ing[p]

\* C17: no step of a synchronization pass (syncDatabaseWatchedThreads,
\* getUpdatedThreads) changes the game store and no step of an ingestion
\* changes the thread store; the thread store changes only in a step of a
\* pass, and a record enters the game store only in the insert step of an
\* ingestion, which ends the item as inserted.
C17_LifecycleFrame ==
    [][/\ SyncStep => gameDB' = gameDB
       /\ IngestStep => threadDB' = threadDB
       /\ threadDB' # threadDB =>
             \E p \in SynProcs :
                /\ syn[p].pc \in {"fetchIns", "fetchUpd", "unsub"}
                /\ syn'[p] # syn[p]
       /\ (\E k \in 1..Len(gameDB') : gameDB'[k] \notin Range(gameDB)) =>
             \E p \in IngProcs :
                /\ ing[p].pc = "insert"
                /\ Len(ing'[p].results) = Len(ing[p].results) + 1
                /\ ing'[p].results[Len(ing'[p].results)].outcome = "inserted"
       /\ (~SyncStep /\ ~IngestStep) =>
             /\ threadDB' = threadDB
             /\ \A k \in 1..Len(gameDB') : gameDB'[k] \in Range(gameDB)]_vars

\* a pass that has inserted a thread is in its unsubscribe step while an
\* ingestion is about to insert a game and a card removal is about to
\* remove one
C17_Witness ==
    \E p \in SynProcs : \E q \in IngProcs :
        /\ syn[p].pc = "unsub" /\ OpsOf(syn[p].log, {"insert"}) # <<>>
        /\ threadDB # <<>>
        /\ ing[q].pc = "insert"
        /\ del.pc = "remove"

\* C18: the insert step of a pass happens for an id no record of the store
\* has, and adds exactly one record: the one of that id, under the URL of
\* the list, with updateAvailable and markedAsRead both FALSE; the pass
\* over a list of one URL with an id, from an empty store, ends with exactly
\* that record.
C18_FirstObservation ==
    /\ [][\A p \in SynProcs :
             (syn[p].pc = "fetchIns" /\ syn'[p].pc = "iter") =>
                 LET new == threadDB'[Len(threadDB')]
                 IN /\ Len(SearchById(threadDB, ExtractId(CurUrl(p)))) = 0
                    /\ Len(threadDB') = Len(threadDB) + 1
                    /\ SubSeq(threadDB', 1, Len(threadDB)) = threadDB
                    /\ new.id = ExtractId(CurUrl(p))
                    /\ new.url = CurUrl(p)
                    /\ ~new.updateAvailable /\ ~new.markedAsRead]_vars
    /\ [](\A p \in SynProcs :
             (/\ Completed(p) /\ syn[p].startStore = <<>>
              /\ Len(syn[p].urlList) = 1 /\ HasMatch(syn[p].urlList[1])) =>
                 /\ Len(threadDB) = 1
                 /\ threadDB[1].id = ExtractId(syn[p].urlList[1])
                 /\ ~threadDB[1].updateAvailable)

\* a pass over the one URL of thread 12, from an empty store, has completed
\* and the store holds the record of thread 12
C18_Witness ==
    \E p \in SynProcs :
        /\ Completed(p) /\ syn[p].startStore = <<>>
        /\ syn[p].urlList = <<U12>>
        /\ Len(threadDB) = 1 /\ threadDB[1].id = 12

\* C19: when the pass meets a URL that is, character for character, the
\* stored url of the record with the extracted id, the step leaves the
\* store as it is (that record with all its fields), issues no fetch and
\* goes on to the next URL.
C19_UnchangedUrlNoOp ==
    [][\A p \in SynProcs :
          (/\ InLoop(p) /\ HasMatch(CurUrl(p)) /\ syn'[p] # syn[p]
           /\ \E k \in 1..Len(threadDB) :
                 /\ threadDB[k].id = ExtractId(CurUrl(p))
                 /\ threadDB[k].url = CurUrl(p)) =>
              /\ threadDB' = threadDB
              /\ syn'[p].pc = "iter"
              /\ syn'[p].idx = syn[p].idx + 1
              /\ syn'[p].log = Logged(p, "nochange", ExtractId(CurUrl(p)))]_vars

\* a pass has completed that met the stored URL of a thread flagged as
\* updated and read, and the record is in the store as it was
C19_Witness ==
    \E p \in SynProcs :
        /\ Completed(p)
        /\ OpsOf(syn[p].log, {"nochange"}) # <<>>
        /\ OpsOf(syn[p].log, {"write"}) = <<>>
        /\ \E k \in 1..Len(threadDB) :
              /\ threadDB[k].updateAvailable /\ threadDB[k].markedAsRead
              /\ threadDB[k] \in Range(syn[p].startStore)
              /\ threadDB[k].url \in Range(syn[p].urlList)

\* C20: in the operations of one pass, the scan of the store for
\* unsubscribed threads comes once, after the last skip, no-change, insert
\* or update; every delete comes after the scan; a completed pass has
\* scanned exactly once.
C20_UnsubscribeLast ==
    \A p \in SynProcs :
        LET log == syn[p].log
        IN /\ \A i, j \in 1..Len(log) :
                 (i < j /\ log[i].op \in {"scan", "delete"}) =>
                     log[j].op = "delete"
           /\ \A j \in 1..Len(log) :
                 log[j].op = "delete" => \E i \in 1..(j - 1) : log[i].op = "scan"
           /\ Len(OpsOf(log, {"scan"})) <= 1
           /\ Completed(p) => Len(OpsOf(log, {"scan"})) = 1

\* a pass has completed that inserted a thread, wrote one and then deleted
\* another
C20_Witness ==
    \E p \in SynProcs :
        /\ Completed(p)
        /\ OpsOf(syn[p].log, {"insert"}) # <<>>
        /\ OpsOf(syn[p].log, {"write"}) # <<>>
        /\ OpsOf(syn[p].log, {"delete"}) # <<>>

\* the store and the ids met when the loop of a pass that runs alone has
\* handled the first n URLs of its list
AfterItems(p, n) ==
    PassLoop(SubSeq(syn[p].urlList, 1, n), syn[p].startStore, syn[p].startId, <<>>)

\* C21: when a remote fetch of a pass fails, the pass stops there: the step
\* changes no store, the URLs after the failing one are not handled, the
\* store is not scanned and nothing is deleted, the store is what the inserts
\* and updates of the earlier URLs made it, and the failure reaches the
\* caller, which returns without asking for the updated threads.
C21_FetchFailureAborts ==
    /\ [][\A p \in SynProcs :
             /\ (syn[p].pc \in {"fetchIns", "fetchUpd"}
                   /\ Len(syn'[p].log) = Len(syn[p].log) + 1
                   /\ syn'[p].log[Len(syn'[p].log)].op = "fail") =>
                    /\ syn'[p].pc = "failed"
                    /\ syn'[p].idx = syn[p].idx
                    /\ threadDB' = threadDB /\ gameDB' = gameDB
             /\ (syn[p].pc = "failed" /\ syn'[p] # syn[p]) =>
                    /\ syn'[p] = IdleSyn
                    /\ threadDB' = threadDB /\ updated' = updated]_vars
    /\ [](\A p \in SynProcs :
             syn[p].pc = "failed" =>
                 LET log == syn[p].log
                     n == syn[p].idx
                 IN /\ n <= Len(syn[p].urlList)
                    /\ log[Len(log)] = [op |-> "fail", key |-> ExtractId(CurUrl(p))]
                    /\ Len(OpsOf(log, {"fail"})) = 1
                    /\ OpsOf(log, {"scan", "delete"}) = <<>>
                    /\ Len(log) = n
                    /\ threadDB = AfterItems(p, n - 1)[1]
                    /\ syn[p].recentIDs =
                          Append(AfterItems(p, n - 1)[2], ExtractId(CurUrl(p))))

\* the fetch for the second URL of a list failed after the first URL had
\* been inserted; a stored thread that the list does not hold is still there
C21_Witness ==
    \E p \in SynProcs :
        /\ syn[p].pc = "failed" /\ syn[p].idx = 2
        /\ syn[p].log[1].op = "insert"
        /\ Len(threadDB) = Len(syn[p].startStore) + 1
        /\ \E i \in 1..Len(threadDB) :
              threadDB[i].id \notin ExtractedIds(syn[p].urlList)

----------------------------------------------------------------------------
(* Properties of invocations that overlap *)

\* the step brings a second record of one remote id into the store
Doubles(db, dbAfter) ==
    \E k \in 1..Len(dbAfter) :
        /\ Len(SearchById(dbAfter, dbAfter[k].id)) > 1
        /\ Len(SearchById(db, dbAfter[k].id)) <= 1

----------------------------------------------------------------------------
(* Properties of the order of the items inside one invocation *)

\* the log entry that ends the handling of a URL of the list
ItemOps == {"skip", "nochange", "insert", "write", "fail"}

\* the entry is one that the URL can end with
EntryOf(url, e) ==
    IF HasMatch(url) THEN e.op \in ItemOps \ {"skip"} /\ e.key = ExtractId(url)
    ELSE e.op = "skip"

\* C23: inside one pass and inside one batch the items are handled one after
\* the other. In a pass, while URL number idx is handled, each earlier URL
\* has ended with exactly one operation, in the order of the list, and no
\* later URL has begun; a step either stays with the URL or ends it and
\* moves to the next one, and a step that changes the thread store inside
\* the loop changes the record of the URL at hand. In a batch, the
\* candidates, the message box and the selected game are those of the first
\* path not yet ended; a step either stays with that path or ends it with
\* nothing of it pending and moves to the next one, and a step that changes
\* the game store inserts the record of the path at hand.
C23_Sequential ==
    /\ [](\A p \in SynProcs :
             syn[p].pc \in {"iter", "fetchIns", "fetchUpd", "failed"} =>
                 LET done == OpsOf(syn[p].log, ItemOps)
                     n == IF syn[p].pc = "failed" THEN syn[p].idx
                          ELSE syn[p].idx - 1
                 IN /\ Len(done) = n /\ done = syn[p].log
                    /\ \A i \in 1..n : EntryOf(syn[p].urlList[i], done[i])
                    /\ Len(syn[p].recentIDs) =
                          Len(WithId(SubSeq(syn[p].urlList, 1,
                                 IF syn[p].pc \in {"fetchIns", "fetchUpd"}
                                 THEN n + 1 ELSE n))))
    /\ [][\A p \in SynProcs :
             (InLoop(p) \/ syn[p].pc \in {"fetchIns", "fetchUpd"}) =>
                 /\ \/ syn'[p].idx = syn[p].idx
                    \/ /\ syn'[p].idx = syn[p].idx + 1
                       /\ syn'[p].pc = "iter" /\ syn'[p].cur = <<>>
                       /\ Len(syn'[p].log) = Len(syn[p].log) + 1
                 /\ (threadDB' # threadDB /\ syn'[p] # syn[p]) =>
                       \A k \in 1..Len(threadDB') :
                           threadDB'[k] \notin Range(threadDB) =>
                               /\ threadDB'[k].url = CurUrl(p)
                               /\ syn'[p].idx = syn[p].idx + 1]_vars
    /\ [](\A p \in IngProcs :
             /\ ing[p].cands # <<>> =>
                   /\ ing[p].pc \in {"choose", "check", "insert"}
                   /\ ing[p].cands = Candidates(Head(ing[p].queue))
             /\ (ing[p].sel # <<>> /\ ing[p].flow = "dir") =>
                   /\ ing[p].pc \in {"check", "insert"}
                   /\ ing[p].sel[1] \in Range(Candidates(Head(ing[p].queue)))
             /\ \A a \in 1..Len(ing[p].asked) :
                   \/ \E k \in 1..Len(ing[p].results) :
                         ing[p].results[k].path = ing[p].asked[a].path
                   \/ /\ ing[p].queue # <<>>
                      /\ ing[p].asked[a].path = Head(ing[p].queue)
                      /\ a = Len(ing[p].asked))
    /\ [][\A p \in IngProcs :
             (ing[p].queue # <<>> /\ ing'[p] # ing[p]) =>
                 /\ \/ /\ ing'[p].queue = ing[p].queue
                       /\ ing'[p].results = ing[p].results
                    \/ /\ ing'[p].queue = Tail(ing[p].queue)
                       /\ Len(ing'[p].results) = Len(ing[p].results) + 1
                       /\ ing'[p].results[Len(ing'[p].results)].path =
                             Head(ing[p].queue)
                       /\ ing'[p].cands = <<>> /\ ing'[p].sel = <<>>
                       /\ ing'[p].pc \in {"lookup", "done", "aborted"}
                 /\ gameDB' # gameDB =>
                       /\ InsertStep(p)
                       /\ Inserted.gameDirectory = Head(ing[p].queue)
                       /\ ing'[p].queue = Tail(ing[p].queue)]_vars

\* a batch of two directories, the first chosen in the message box and
\* inserted, is at the insert of the second, after a pass of two URLs that
\* inserted a thread for the first and wrote it for the second
C23_Witness ==
    \E p \in IngProcs :
        /\ ing[p].pc = "insert" /\ Len(ing[p].queue) = 1
        /\ Len(ing[p].results) = 1 /\ ing[p].results[1].outcome = "inserted"
        /\ ing[p].asked # <<>>
        /\ \E k \in 1..Len(threadDB) : threadDB[k].updateAvailable

----------------------------------------------------------------------------
(* The states one directory item goes through *)

\* the step ends the item at hand of invocation p with `outcome`
Ends(p, outcome) ==
    /\ ing'[p].results =
          Append(ing[p].results, [path |-> Head(ing[p].queue), outcome |-> outcome])
    /\ ing'[p].queue = Tail(ing[p].queue)

\* the message box has been answered for the item at hand
Resolved(p) ==
    \E a \in 1..Len(ing[p].asked) : ing[p].asked[a].path = Head(ing[p].queue)

\* C24: a directory item moves only along these steps. From the lookup
\* (Parsed, Queried) it ends as no match when the search is empty, goes to
\* the lookup by id when the search has one game (SingleMatch), and to the
\* message box when it has several (MultiMatch); from the message box it ends
\* as cancelled or goes, with the chosen candidate, to the lookup by id
\* (Resolved); from the lookup by id (Checked) it ends as already listed
\* when the store holds the id and goes to the insert when it does not; the
\* insert adds one record and ends it as inserted. A call that throws ends
\* the item where it is, the store unchanged. So a record is inserted only
\* for an item whose search had a result and whose id the store did not
\* hold, and each item has one outcome and at most one record.
C24_ItemStateMachine ==
    /\ [][\A p \in IngProcs :
             (ing[p].flow = "dir" /\ ing[p].queue # <<>> /\ ing'[p] # ing[p]) =>
                 LET found == Candidates(Head(ing[p].queue))
                 IN \/ /\ Ends(p, "failed") /\ gameDB' = gameDB
                       /\ ing[p].pc \in {"lookup", "choose", "check", "insert"}
                    \/ /\ ing[p].pc = "lookup" /\ Len(found) = 0
                       /\ Ends(p, "nomatch") /\ gameDB' = gameDB
                    \/ /\ ing[p].pc = "lookup" /\ Len(found) = 1
                       /\ ing'[p].pc = "check" /\ ing'[p].sel = found
                       /\ ing'[p].asked = ing[p].asked /\ gameDB' = gameDB
                    \/ /\ ing[p].pc = "lookup" /\ Len(found) > 1
                       /\ ing'[p].pc = "choose" /\ ing'[p].cands = found
                       /\ ing'[p].sel = <<>> /\ gameDB' = gameDB
                    \/ /\ ing[p].pc = "choose" /\ ~Resolved(p)
                       /\ Ends(p, "cancelled") /\ gameDB' = gameDB
                    \/ /\ ing[p].pc = "choose" /\ ~Resolved(p)
                       /\ ing'[p].pc = "check" /\ Len(ing'[p].sel) = 1
                       /\ ing'[p].sel[1] \in Range(found)
                       /\ Len(ing'[p].asked) = Len(ing[p].asked) + 1
                       /\ gameDB' = gameDB
                    \/ /\ ing[p].pc = "check"
                       /\ IdInLibrary(ing[p].sel[1].id, gameDB)
                       /\ Ends(p, "listed") /\ gameDB' = gameDB
                    \/ /\ ing[p].pc = "check"
                       /\ ~IdInLibrary(ing[p].sel[1].id, gameDB)
                       /\ ing'[p].pc = "insert" /\ ing'[p].sel = ing[p].sel
                       /\ gameDB' = gameDB
                    \/ /\ ing[p].pc = "insert"
                       /\ InsertStep(p) /\ Inserted.id = ing[p].sel[1].id
                       /\ Ends(p, "inserted")]_vars
    /\ [](\A p \in IngProcs :
             ing[p].flow = "dir" =>
                 /\ ing[p].pc = "insert" =>
                       /\ ing[p].sel[1] \in Range(Candidates(Head(ing[p].queue)))
                       /\ ~IdInLibrary(ing[p].sel[1].id, gameDB)
                 /\ \A k \in 1..Len(ing[p].results) :
                       LET path == ing[p].results[k].path
                       IN /\ ing[p].results[k].outcome = "inserted" =>
                                /\ Len(Candidates(path)) >= 1
                                /\ Len(RecordsFor(p, path)) = 1
                          /\ ing[p].results[k].outcome # "inserted" =>
                                Len(RecordsFor(p, path)) = 0
                          /\ \A j \in 1..Len(ing[p].results) :
                                ing[p].results[j].path = path => j = k)

\* a batch ended whose first item went through the message box and was
\* inserted and whose second item, with a single match, ended as already
\* listed
C24_Witness ==
    \E p \in IngProcs :
        /\ ing[p].flow = "dir" /\ ing[p].pc = "done" /\ Len(ing[p].results) = 2
        /\ ing[p].results[1].outcome = "inserted"
        /\ Len(ing[p].asked) = 1 /\ ing[p].asked[1].path = ing[p].results[1].path
        /\ ing[p].results[2].outcome = "listed"
        /\ Len(Candidates(ing[p].results[2].path)) = 1

----------------------------------------------------------------------------
(* Threads first observed in a pass *)

\* the record was inserted by the pass of invocation p, which runs alone
InsertedInPass(p, rec) == rec._id >= syn[p].startId

\* C25 as stated: for every list, a record inserted during a pass has
\* updateAvailable = FALSE when the pass has ended, and getUpdatedThreads()
\* does not return it after that pass.
C25_NoUpdateOnFirstObservation ==
    \A p \in SynProcs :
        Completed(p) =>
            \A k \in 1..Len(threadDB) :
                InsertedInPass(p, threadDB[k]) =>
                    /\ ~threadDB[k].updateAvailable
                    /\ syn[p].pc = "shown" => threadDB[k] \notin Range(updated)

\* C25 amended: when a pass has ended, a record inserted during it has
\* updateAvailable = TRUE exactly when the list holds its id under two
\* different URL texts; a record inserted during a pass whose list holds its
\* id under one URL text only, however often, has updateAvailable = FALSE
\* and getUpdatedThreads() does not return it after that pass.
C25_NoUpdateUnlessTwoUrls ==
    \A p \in SynProcs :
        Completed(p) =>
            \A k \in 1..Len(threadDB) :
                InsertedInPass(p, threadDB[k]) =>
                    /\ threadDB[k].updateAvailable <=>
                          IdUnderTwoUrls(syn[p].urlList, threadDB[k].id)
                    /\ (syn[p].pc = "shown"
                          /\ ~IdUnderTwoUrls(syn[p].urlList, threadDB[k].id)) =>
                             threadDB[k] \notin Range(updated)

\* getUpdatedThreads() has returned after a pass over a list that repeats
\* one URL twice; the record the pass inserted for it is not flagged
C25_Witness ==
    \E p \in SynProcs :
        /\ syn[p].pc = "shown"
        /\ Len(syn[p].urlList) = 2 /\ syn[p].urlList[1] = syn[p].urlList[2]
        /\ \E k \in 1..Len(threadDB) :
              /\ InsertedInPass(p, threadDB[k])
              /\ ~threadDB[k].updateAvailable

----------------------------------------------------------------------------
(* The id a pass uses for a URL *)

\* the positions at which the URL ends with a dot followed by digits only
TrailingStarts(url) ==
    {i \in 1..(Len(url) - 1) :
        /\ url[i] = "."
        /\ \A m \in (i + 1)..Len(url) : IsDigit(url[m])}

\* the URL has a trailing numeric segment
HasTrailingId(url) == TrailingStarts(url) # {}

\* the integer value of the trailing numeric segment
TrailingId(url) == ParseInt(SubSeq(url, Max(TrailingStarts(url)) + 1, Len(url)))

\* the step handles the URL at hand of the pass of invocation p
HandlesUrl(p) == InLoop(p) /\ syn'[p] # syn[p]

\* the step skips the URL at hand as one without id
Skips(p) ==
    /\ syn'[p].recentIDs = syn[p].recentIDs
    /\ syn'[p].log = Logged(p, "skip", 0)
    /\ syn'[p].idx = syn[p].idx + 1

\* C26 as stated: the pass uses, for a URL with a trailing numeric segment,
\* the integer value of that segment as remote id, also when an earlier dot
\* of the URL is followed by digits; and it skips, as a URL without id,
\* exactly the URLs that have no trailing numeric segment.
C26_TrailingIdExtracted ==
    [][\A p \in SynProcs :
          HandlesUrl(p) =>
              IF HasTrailingId(CurUrl(p))
              THEN syn'[p].recentIDs =
                      Append(syn[p].recentIDs, TrailingId(CurUrl(p)))
              ELSE Skips(p)]_vars

\* the dots of the URL that are followed by a digit
DotDigits(url) == {i \in 1..(Len(url) - 1) : url[i] = "." /\ IsDigit(url[i + 1])}

\* the digits that follow the dot at i, up to the first character that is
\* not a digit
DigitsAfter(url, i) ==
    SubSeq(url, i + 1,
           Min({k \in (i + 1)..(Len(url) + 1) :
                   k = Len(url) + 1 \/ ~IsDigit(url[k])}) - 1)

\* C26, what the code does: the pass uses the integer value of the digits
\* that follow the first dot followed by a digit, wherever in the URL it is,
\* and skips exactly the URLs in which no dot is followed by a digit; this
\* is the value of the trailing numeric segment when the dot of that segment
\* is the only dot of the URL followed by a digit.
C26_FirstGroupExtracted ==
    [][\A p \in SynProcs :
          HandlesUrl(p) =>
              LET url == CurUrl(p)
              IN IF DotDigits(url) # {}
                 THEN /\ syn'[p].recentIDs =
                            Append(syn[p].recentIDs,
                                   ParseInt(DigitsAfter(url, Min(DotDigits(url)))))
                      /\ (HasTrailingId(url) /\ Cardinality(DotDigits(url)) = 1) =>
                            syn'[p].recentIDs =
                               Append(syn[p].recentIDs, TrailingId(url))
                 ELSE Skips(p)]_vars

\* a pass has met a URL whose trailing numeric segment is 3 and whose first
\* dot followed by a digit gives 1, and took 1 as the id
C26_Witness ==
    \E p \in SynProcs :
        /\ syn[p].pc = "fetchIns"
        /\ HasTrailingId(CurUrl(p)) /\ TrailingId(CurUrl(p)) = 3
        /\ syn[p].recentIDs = <<1>>

----------------------------------------------------------------------------
(* Properties of the selection filter *)

\* the name shown for a directory: tags and special characters stripped,
\* trimmed, in its own letter case
DisplayName(path) == Trim(StripSpecials(StripTags(path)))

\* C27: the filter of the selection splits it in two: the returned list is
\* the selected paths, in the order of the selection, whose normalized,
\* case-folded name is that of no record of the library; the names reported
\* as present are the cleaned names of the other paths, in that order; each
\* path is in exactly one of the two; and the step changes no store.
C27_Partition ==
    /\ [](\A p \in IngProcs :
             ing[p].pc # "idle" =>
                 LET picked == ing[p].picked
                     games == ing[p].startGames
                     out == SelectSeq(picked, LAMBDA x : ~KeyInLibrary(x, games))
                     dup == SelectSeq(picked, LAMBDA x : KeyInLibrary(x, games))
                 IN /\ ing[p].unlisted = out
                    /\ ing[p].present = [i \in 1..Len(dup) |-> DisplayName(dup[i])]
                    /\ Len(ing[p].unlisted) + Len(ing[p].present) = Len(picked)
                    /\ \A i \in 1..Len(picked) :
                          /\ picked[i] \in Range(ing[p].unlisted) <=>
                                ~KeyInLibrary(picked[i], games)
                          /\ KeyInLibrary(picked[i], games) =>
                                DisplayName(picked[i]) \in Range(ing[p].present))
    /\ [][\A p \in IngProcs :
             (ing[p].pc = "idle" /\ ing'[p].pc # "idle") =>
                 /\ gameDB' = gameDB /\ threadDB' = threadDB
                 /\ ing'[p].startGames = gameDB]_vars

\* a selection of two directories was filtered: the first was returned, the
\* second, whose name differs from the name of the record in case and by a
\* tag, was reported as present
C27_Witness ==
    \E p \in IngProcs :
        /\ ing[p].pc # "idle" /\ Len(ing[p].picked) = 2
        /\ ing[p].unlisted = <<ing[p].picked[1]>>
        /\ Len(ing[p].present) = 1
        /\ ing[p].picked[2] # ing[p].present[1]
        /\ \A k \in 1..Len(ing[p].startGames) :
              ing[p].startGames[k].name # ing[p].present[1]

\* C28: with d names found present among the selected paths, the filter
\* sends one "already listed" warning per name, in the order of the names,
\* when d is at most 5 (none when d is 0), and one single warning that
\* carries the number d when d is above 5; nothing is sent later for them.
C28_NoticeBatching ==
    /\ [](\A p \in IngProcs :
             ing[p].pc # "idle" =>
                 LET dup == SelectSeq(ing[p].picked,
                                      LAMBDA x : KeyInLibrary(x, ing[p].startGames))
                     d == Len(dup)
                 IN IF d <= 5
                    THEN /\ Len(ing[p].notices) = d
                         /\ \A i \in 1..d :
                               /\ ing[p].notices[i].kind = "listed"
                               /\ ing[p].notices[i].gamename = DisplayName(dup[i])
                    ELSE /\ Len(ing[p].notices) = 1
                         /\ ing[p].notices[1].kind = "multiple"
                         /\ ing[p].notices[1].number = d)
    /\ [][\A p \in IngProcs :
             ing[p].pc # "idle" /\ ing'[p].pc # "idle" =>
                 ing'[p].notices = ing[p].notices]_vars

\* a selection of six directories whose name the library holds was filtered
\* and one warning with the number 6 was sent
C28_Witness ==
    \E p \in IngProcs :
        /\ ing[p].pc # "idle"
        /\ Len(ing[p].present) = 6
        /\ Len(ing[p].notices) = 1 /\ ing[p].notices[1].number = 6

----------------------------------------------------------------------------
(* Properties of the parsing of a directory name *)

\* the positions of the raw name at which the marker "[V." starts, in any
\* letter case
MarkerStarts(raw) ==
    {i \in 1..(Len(raw) - 2) :
        raw[i] = "[" /\ raw[i + 1] \in {"v", "V"} /\ raw[i + 2] = "."}

\* the positions of "]" after the first marker
ClosingAfterMarker(raw) ==
    {k \in (Min(MarkerStarts(raw)) + 3)..Len(raw) : raw[k] = "]"}

\* the raw name holds "[MOD]" in some letter case
HasModTag(raw) ==
    \E i \in 1..(Len(raw) - 4) :
        /\ raw[i] = "[" /\ raw[i + 1] \in {"m", "M"} /\ raw[i + 2] \in {"o", "O"}
        /\ raw[i + 3] \in {"d", "D"} /\ raw[i + 4] = "]"

\* the lookup of the item has run on the raw name: its DirInfo is known
Parsed(p) ==
    /\ ing[p].results # <<>>
    /\ ing[p].dirInfo.path = ing[p].results[Len(ing[p].results)].path

\* C29 as stated: for every raw directory name, the version is the text
\* between the first marker "[V." (in any letter case) and the next "]"
\* after it, and is "Unknown" when there is no marker or the marker has no
\* closing "]"; mod is true exactly when the name holds "[MOD]" in some
\* letter case.
C29_Parsing ==
    \A p \in IngProcs :
        Parsed(p) =>
            LET raw == ing[p].dirInfo.path
            IN /\ ing[p].dirInfo.version =
                     IF MarkerStarts(raw) # {} /\ ClosingAfterMarker(raw) # {}
                     THEN SubSeq(raw, Min(MarkerStarts(raw)) + 3,
                                 Min(ClosingAfterMarker(raw)) - 1)
                     ELSE Unknown
               /\ ing[p].dirInfo.mod <=> HasModTag(raw)

\* C29, what the code does: the version is the text between the first
\* marker and the next "]" after it, is the empty string when the marker has
\* no closing "]", and is "Unknown" exactly when there is no marker; mod is
\* true exactly when the name holds "[MOD]" in some letter case.
C29_ParsingEmptyWhenUnclosed ==
    \A p \in IngProcs :
        Parsed(p) =>
            LET raw == ing[p].dirInfo.path
            IN /\ ing[p].dirInfo.version =
                     IF MarkerStarts(raw) = {} THEN Unknown
                     ELSE IF ClosingAfterMarker(raw) = {} THEN <<>>
                     ELSE SubSeq(raw, Min(MarkerStarts(raw)) + 3,
                                 Min(ClosingAfterMarker(raw)) - 1)
               /\ ing[p].dirInfo.mod <=> HasModTag(raw)

\* a name with the mod tag in mixed case and a marker that is never closed
\* has been parsed: its version is the empty string
C29_Witness ==
    \E p \in IngProcs :
        /\ Parsed(p)
        /\ MarkerStarts(ing[p].dirInfo.path) # {}
        /\ ClosingAfterMarker(ing[p].dirInfo.path) = {}
        /\ ing[p].dirInfo.version = <<>>
        /\ ing[p].dirInfo.mod

----------------------------------------------------------------------------
(* The ids of the store after a pass *)

StoredIds(db) == {db[i].id : i \in 1..Len(db)}

\* every URL of the list from which an id is extracted addresses the thread
\* of that id: each fetched record carries the id extracted from its URL
FetchedIdsMatch(L) ==
    \A i \in 1..Len(L) :
        HasMatch(L[i]) => Addressed(L[i]) /\ RemoteThreadId(L[i]) = ExtractId(L[i])

\* the internal id of the record stored by the insert that entry i of the
\* log of a pass stands for; the pass runs alone
InsertedDbId(p, i) ==
    syn[p].startId + Len(OpsOf(SubSeq(syn[p].log, 1, i - 1), {"insert"}))

\* entry i of the log is the insert of a record whose id is not the id
\* extracted from the URL it was fetched for
Misfiled(p, i) ==
    /\ i <= Len(syn[p].urlList)
    /\ syn[p].log[i].op = "insert"
    /\ syn[p].log[i].key # ExtractId(syn[p].urlList[i])

\* C30 as stated: when a pass over L has completed, the ids of the records
\* of the store are the ids extracted from L, provided each fetched record
\* carries the id extracted from its URL; and a record the pass inserted
\* with an id other than the extracted one has been deleted by then.
C30_StoreIdsEqualList ==
    \A p \in SynProcs :
        Completed(p) =>
            /\ FetchedIdsMatch(syn[p].urlList) =>
                  StoredIds(threadDB) = ExtractedIds(syn[p].urlList)
            /\ \A i \in 1..Len(syn[p].log) :
                  Misfiled(p, i) => ~HasDbId(threadDB, InsertedDbId(p, i))

\* C30 amended: when a pass over L has completed, every record of the store
\* has an id extracted from L, and the ids of the store are exactly the ids
\* extracted from L provided each fetched record carries the id extracted
\* from its URL; a record the pass inserted with an id other than the
\* extracted one has been deleted by then exactly when its id is extracted
\* from no URL of L.
C30_StoreIdsWithinList ==
    \A p \in SynProcs :
        Completed(p) =>
            /\ StoredIds(threadDB) \subseteq ExtractedIds(syn[p].urlList)
            /\ FetchedIdsMatch(syn[p].urlList) =>
                  StoredIds(threadDB) = ExtractedIds(syn[p].urlList)
            /\ \A i \in 1..Len(syn[p].log) :
                  Misfiled(p, i) =>
                      (~HasDbId(threadDB, InsertedDbId(p, i)) <=>
                          syn[p].log[i].key \notin ExtractedIds(syn[p].urlList))

\* a pass over one URL, from which id 1 is extracted and which addresses
\* thread 3, has completed: it inserted the record of thread 3 and its
\* unsubscribe step deleted it
C30_Witness ==
    \E p \in SynProcs :
        /\ Completed(p) /\ Len(syn[p].urlList) = 1
        /\ Misfiled(p, 1) /\ syn[p].log[1].key = 3
        /\ OpsOf(syn[p].log, {"delete"}) # <<>>
        /\ ~HasDbId(threadDB, InsertedDbId(p, 1))

----------------------------------------------------------------------------
(* The flags of the threads a pass finds in the store *)

\* the record of the store the pass of p started from that has internal id
\* dbid
StartRecord(p, dbid) ==
    syn[p].startStore[CHOOSE i \in 1..Len(syn[p].startStore) :
                         syn[p].startStore[i]._id = dbid]

\* C31: from its start to its return, a pass that runs alone leaves every
\* record that was in the store when it started, and is still there, with
\* updateAvailable still TRUE if it was TRUE and markedAsRead still FALSE if
\* it was FALSE; a record whose flags differ from those it started with has
\* updateAvailable = TRUE and markedAsRead = FALSE.
C31_FlagsNeverCleared ==
    \A p \in SynProcs :
        syn[p].pc # "idle" =>
            \A k \in 1..Len(threadDB) :
                HasDbId(syn[p].startStore, threadDB[k]._id) =>
                    LET old == StartRecord(p, threadDB[k]._id)
                        new == threadDB[k]
                    IN /\ old.updateAvailable => new.updateAvailable
                       /\ new.markedAsRead => old.markedAsRead
                       /\ (<<old.updateAvailable, old.markedAsRead>> #
                              <<new.updateAvailable, new.markedAsRead>>) =>
                             (new.updateAvailable /\ ~new.markedAsRead)

\* a pass has ended after writing, for a changed URL, over a thread that was
\* flagged and read when the pass started: the record is still flagged and
\* is unread again
C31_Witness ==
    \E p \in SynProcs :
        /\ Completed(p)
        /\ \E e \in Range(syn[p].log) : e.op = "write"
        /\ \E k \in 1..Len(threadDB) :
              /\ HasDbId(syn[p].startStore, threadDB[k]._id)
              /\ StartRecord(p, threadDB[k]._id).updateAvailable
              /\ StartRecord(p, threadDB[k]._id).markedAsRead
              /\ StartRecord(p, threadDB[k]._id).url # threadDB[k].url
              /\ threadDB[k].updateAvailable
              /\ ~threadDB[k].markedAsRead

----------------------------------------------------------------------------
(* Termination of passes and directory batches *)

\* the ends an item of a directory batch can come to
TerminalOutcomes == {"nomatch", "cancelled", "listed", "inserted", "failed"}

\* the batch of p is over: every path the name filter let through has ended
\* once, in the order of the paths, each in a terminal state
BatchEnded(p) ==
    /\ ing[p].pc = "done"
    /\ ResultPaths(ing[p].results) = ing[p].unlisted
    /\ \A k \in 1..Len(ing[p].results) :
          ing[p].results[k].outcome \in TerminalOutcomes

\* the batch of p is between two of its awaits on the remote lookup or on
\* the store
BatchRuns(p) == ing[p].pc \in {"lookup", "check", "insert"}

\* C32: when every remote fetch and every store call returns or fails in the
\* end, every pass that started ends (syncDatabaseWatchedThreads returns or
\* rejects); every directory batch whose message box does not stay open for
\* ever ends with each of its paths ended exactly once in a terminal state;
\* and a batch that runs comes either to that end or to the message box, so
\* the message box is the only place where it can stay.
C32_Termination ==
    /\ \A p \in SynProcs :
          (syn[p].pc \in {"iter", "fetchIns", "fetchUpd", "unsub"})
             ~> (syn[p].pc \in {"done", "failed"})
    /\ \A p \in IngProcs :
          \/ <>[](ing[p].pc = "choose")
          \/ (BatchRuns(p) \/ ing[p].pc = "choose") ~> BatchEnded(p)
    /\ \A p \in IngProcs :
          BatchRuns(p) ~> (BatchEnded(p) \/ ing[p].pc = "choose")

\* a batch of two paths has ended after its message box was answered, and a
\* pass has ended before it
C32_Witness ==
    /\ prevL # <<>>
    /\ \E p \in IngProcs :
          /\ BatchEnded(p)
          /\ Len(ing[p].results) = 2
          /\ ing[p].asked # <<>>

----------------------------------------------------------------------------
(* The channels the message-box preload lets through *)

\* the call forwarded a message to the main process
Forwards(call) == call.out # <<>>

\* the call registered a listener
Listens(call) == call.listening # <<>>

\* C33 as stated: every message a call of send, invoke, cwd or translate
\* forwards goes over a channel of validSendChannels; once() registers a
\* listener only for a channel of validReceiveChannels; a call with any
\* other channel forwards nothing and registers nothing.
C33_ChannelWhitelist ==
    \A k \in 1..Len(ipc) :
        LET call == ipc[k]
        IN /\ Forwards(call) =>
                 /\ call.api \in {"send", "invoke", "cwd", "translate"}
                 /\ ValidSend(call.out[1].channel)
           /\ Listens(call) =>
                 /\ call.api = "once"
                 /\ ValidReceive(call.listening[1])
           /\ (call.api \in {"send", "invoke"} /\ ~ValidSend(call.channel)) =>
                 ~Forwards(call) /\ ~Listens(call)
           /\ (call.api = "once" /\ ~ValidReceive(call.channel)) =>
                 ~Forwards(call) /\ ~Listens(call)

\* C33, what the preload does: send and invoke forward over the channel they
\* are given, and only when validSendChannels holds it; translate forwards
\* over "translate", which validSendChannels holds; cwd forwards over "cwd",
\* which it does not hold; once() registers a listener for the channel it is
\* given, and only when validReceiveChannels holds it; a call of send, invoke
\* or once with any other channel forwards nothing and registers nothing.
C33_WhitelistButCwd ==
    /\ ~ValidSend("cwd")
    /\ \A k \in 1..Len(ipc) :
        LET call == ipc[k]
        IN /\ Forwards(call) =>
                 CASE call.api \in {"send", "invoke"} ->
                         /\ call.out = <<Message(call.api, call.channel)>>
                         /\ ValidSend(call.channel)
                   [] call.api = "translate" ->
                         /\ call.out = <<Message("invoke", "translate")>>
                         /\ ValidSend("translate")
                   [] call.api = "cwd" ->
                         call.out = <<Message("invoke", "cwd")>>
                   [] OTHER -> FALSE
           /\ call.api \in {"cwd", "translate"} => Forwards(call)
           /\ Listens(call) =>
                 /\ call.api = "once"
                 /\ call.listening = <<call.channel>>
                 /\ ValidReceive(call.channel)
           /\ (call.api \in {"send", "invoke"} /\ ~ValidSend(call.channel)) =>
                 ~Forwards(call) /\ ~Listens(call) /\ call.warned
           /\ (call.api = "once" /\ ~ValidReceive(call.channel)) =>
                 ~Forwards(call) /\ ~Listens(call)

\* the page has called cwd(), whose message went out over "cwd", after a
\* send on that same channel was refused
C33_Witness ==
    /\ Len(ipc) = 2
    /\ ipc[1].api = "send" /\ ipc[1].channel = "cwd" /\ ~Forwards(ipc[1])
    /\ ipc[2].api = "cwd" /\ ipc[2].out = <<Message("invoke", "cwd")>>

----------------------------------------------------------------------------
(* The order of the steps of the snapshot build tool *)

\* the step writes over a snapshot file of electron/dist
OverwritesDist ==
    \/ snap'.distBlob # snap.distBlob
    \/ snap'.distSnapshot # snap.distSnapshot

\* the step puts a snapshot file into the cache
Generates ==
    \/ snap'.cacheBlob # snap.cacheBlob /\ snap'.cacheBlob # Absent
    \/ snap'.cacheSnapshot # snap.cacheSnapshot /\ snap'.cacheSnapshot # Absent

\* the step changes the backup directory or a file in it
TouchesBackup ==
    \/ snap'.backupDir # snap.backupDir
    \/ snap'.backupBlob # snap.backupBlob
    \/ snap'.backupSnapshot # snap.backupSnapshot

\* C34: in every run of main(), a snapshot file of electron/dist is written
\* over only by a copy of copySnapshot and only after backupOriginalSnapshot
\* has returned in that run; a run that found the backup directory when it
\* started changes nothing in it; and a snapshot file is put into the cache,
\* and written over a file of electron/dist, only in a run whose
\* testSnapshotScript returned true, the file written being the one that
\* run generated.
C34_SnapshotOrdering ==
    [][/\ OverwritesDist =>
             /\ snap.pc \in {"copyBlob", "copySnapshot"}
             /\ snap.backedUp
       /\ snap.hadBackup => ~TouchesBackup
       /\ Generates => snap.valid /\ snap.pc = "generate"
       /\ OverwritesDist =>
             /\ snap.valid
             /\ snap'.distBlob \in {snap.distBlob, snap.run}
             /\ snap'.distSnapshot \in {snap.distSnapshot, snap.run}]_vars

\* a second run has ended after copying its snapshot files over those of the
\* first run; the backup directory still holds the original files
C34_Witness ==
    /\ snap.pc = "done"
    /\ snap.run = 2
    /\ snap.hadBackup
    /\ snap.distBlob = 2 /\ snap.distSnapshot = 2
    /\ snap.backupBlob = Original /\ snap.backupSnapshot = Original

====
